---- MODULE Spec2Model ----
(***************************************************************************)
(* Model of the browser agent of mls-vls-syndicator:                       *)
(*   - the background service worker (runAgent / stopAgent and the message *)
(*     listener that starts them), one handler instance per message;       *)
(*   - the backend routes /ai-decision and /get-next-action.               *)
(* Every await of runAgent is a step of its handler; the code between two  *)
(* awaits runs without interruption (one JavaScript event-loop turn) and   *)
(* is one action.                                                          *)
(***************************************************************************)
EXTENDS Integers, Sequences, FiniteSets, TLC

(***************************************************************************)
(* Bounds of the model.  MAX_ITERATIONS is 50 and the history keeps 10     *)
(* entries in the source; the model runs the same code with smaller values *)
(* so that the cap and the eviction are reached.                           *)
(***************************************************************************)
MAX_ITERATIONS == 3
HistoryLimit == 2

\* Program constants
MAX_RETRIES == 3
BackoffBaseMs == 1000

\* Concurrent invocations of the message listener that the model follows
Handlers == {"h1", "h2"}

\* Optional values: <<>> is null, <<v>> is the value v
None == <<>>
Some(v) == <<v>>

(***************************************************************************)
(* Strings                                                                 *)
(***************************************************************************)
UpperChars == "ABCDEFGHIJKLMNOPQRSTUVWXYZ"
LowerChars == "abcdefghijklmnopqrstuvwxyz"

CharAt(s, i) == SubSeq(s, i, i)

LowerChar(c) ==
  IF \E i \in 1..Len(UpperChars) : CharAt(UpperChars, i) = c
  THEN CharAt(LowerChars, CHOOSE i \in 1..Len(UpperChars) : CharAt(UpperChars, i) = c)
  ELSE c

RECURSIVE ToLowerCase(_)
ToLowerCase(s) ==
  IF Len(s) = 0 THEN "" ELSE LowerChar(CharAt(s, 1)) \o ToLowerCase(SubSeq(s, 2, Len(s)))

IsSpace(c) == c = " "

RECURSIVE TrimStart(_)
TrimStart(s) ==
  IF Len(s) > 0 /\ IsSpace(CharAt(s, 1)) THEN TrimStart(SubSeq(s, 2, Len(s))) ELSE s

RECURSIVE TrimEnd(_)
TrimEnd(s) ==
  IF Len(s) > 0 /\ IsSpace(CharAt(s, Len(s))) THEN TrimEnd(SubSeq(s, 1, Len(s) - 1)) ELSE s

Trim(s) == TrimEnd(TrimStart(s))

StartsWith(s, prefix) ==
  Len(prefix) <= Len(s) /\ SubSeq(s, 1, Len(prefix)) = prefix

Includes(s, part) ==
  \E i \in 1..(Len(s) - Len(part) + 1) : SubSeq(s, i, i + Len(part) - 1) = part

(***************************************************************************)
(* isJustAQuestion                                                         *)
(***************************************************************************)
Greetings == {"hi", "hello", "hey", "good morning", "good afternoon", "good evening"}

QuestionPrefixes ==
  {"what can you do", "what are you", "who are you", "how do you work",
   "what is this", "how does this work"}

ActionVerbs ==
  {"login", "log in", "sign in", "signin",
   "click", "press", "tap", "select",
   "fill", "enter", "type", "input", "write",
   "submit", "send", "post", "upload",
   "add", "create", "make", "build",
   "go to", "navigate", "open", "visit",
   "find", "search", "look for",
   "download", "save", "export",
   "figure out", "learn", "teach", "show me"}

\* /^(hi|hello|...)[\s!.]*$/
IsGreeting(m) ==
  \E g \in Greetings :
    /\ StartsWith(m, g)
    /\ \A i \in (Len(g) + 1)..Len(m) : CharAt(m, i) \in {" ", "!", "."}

\* Variant of isJustAQuestion that knows the questions about the extension only
isJustAQuestion_PatternsOnly(message) ==
  LET lowerMessage == Trim(ToLowerCase(message)) IN
    (\E q \in QuestionPrefixes : StartsWith(lowerMessage, q)) \/ lowerMessage = "help"

\* isJustAQuestion(message): greeting, question about the extension, action verb, short message
isJustAQuestion(message) ==
  LET lowerMessage == Trim(ToLowerCase(message)) IN
    IF IsGreeting(lowerMessage) THEN TRUE
    ELSE IF (\E q \in QuestionPrefixes : StartsWith(lowerMessage, q)) \/ lowerMessage = "help"
         THEN TRUE
    ELSE IF \E verb \in ActionVerbs : Includes(lowerMessage, verb) THEN FALSE
    ELSE IF Len(lowerMessage) < 15 /\ ~Includes(lowerMessage, "workflow") THEN TRUE
    ELSE FALSE

HelpMessage == "I'm your browser automation assistant! Tell me what you want me to do on this page and I'll learn how to do it."

(***************************************************************************)
(* Backend: POST /api/extension/ai-decision.  A model response is          *)
(* [tool, text, stop_reason]: the action of its tool_use block ("none"     *)
(* when it has none), its text block (None when it has none) and its       *)
(* stop reason.  An action is represented by its kind.                     *)
(***************************************************************************)
ConvertedKind(tool) ==
  CASE tool = "screenshot" -> "screenshot"
    [] tool \in {"left_click", "right_click", "double_click", "middle_click"} -> "click_coordinates"
    [] tool = "type" -> "type_text"
    [] tool = "key" -> "key_press"
    [] tool = "scroll" -> "scroll"
    [] tool = "mouse_move" -> "mouse_move"
    [] tool = "wait" -> "wait"
    [] OTHER -> tool

AiDecisionData(r) ==
  IF r.tool # "none"
  THEN [action |-> Some(ConvertedKind(r.tool)),
        response |-> IF r.text # None THEN r.text[1] ELSE "Performing: " \o r.tool,
        done |-> FALSE]
  ELSE IF r.stop_reason = "end_turn"
  THEN [action |-> Some("done"),
        response |-> IF r.text # None THEN r.text[1] ELSE "Task completed",
        done |-> TRUE]
  ELSE [action |-> None,
        response |-> IF r.text # None THEN r.text[1] ELSE "No action needed",
        done |-> FALSE]

\* Responses of the model that the checks run over
ToolUses == {"left_click"}
Texts == {"Task Complete!", "I have finished", "All set."}
TextBlocks == {None} \cup {Some(t) : t \in Texts}
ModelResponses ==
  [tool : ToolUses, text : TextBlocks, stop_reason : {"tool_use"}]
    \cup [tool : {"none"}, text : TextBlocks, stop_reason : {"end_turn", "max_tokens"}]

(***************************************************************************)
(* Content script: executeAction dispatches on the action kind             *)
(***************************************************************************)
KnownKinds ==
  {"click", "type", "scroll", "navigate", "upload", "wait", "click_coordinates",
   "type_at_cursor", "key_press", "mouse_move", "noop", "click_text"}

\* The errors executing an action of this kind can end in ("" is success)
ExecuteOutcomes(kind) ==
  IF kind \in KnownKinds
  THEN {"", "Tab message failed"}
  ELSE {"Unknown action: " \o kind}

(***************************************************************************)
(* Service worker: the shared AgentState and one runAgent activation per   *)
(* handler.  pc[h] is the await the activation is suspended at; the locals *)
(* of an activation are reset when it returns.                             *)
(***************************************************************************)
VARIABLES
  state,        \* the module-level AgentState
  pc,           \* per handler: "idle" or the pending await
  iteration,    \* per handler: local `iteration` of the agent loop
  retries,      \* per handler: local `retries` of the decision retry loop
  response,     \* per handler: local `response` of the pass, [action, done]
  waits,        \* per handler: the backoff waits of the current retry loop, in ms
  sentResponse, \* the error the last step answered with sendResponse ("success"; "" if it answered nothing)
  event,        \* what the last step reacted to: [handler, await, ok, goal]
  sentMessage,  \* the agent_message the last step sent to the popup ("" if none)
  lastStatus,   \* the last status_update sent to the popup
  okPasses,     \* per handler: passes of its loop that did not end in an execution failure
  goalOf,       \* per handler: parameter `goal` of its runAgent call ("" when it has returned)
  dropped,      \* whether an entry was evicted from actionHistory since it was last cleared
  workflow,     \* the user's workflow in the backend database: [id, status, recordedActions]
  replay,       \* the replay client: its position, cursor, request body and the route's answer
  subst,        \* one use of the placeholder substitution: its inputs and its results
  page,         \* the content script executing one action on an element of the page
  sync,         \* the desktop sync engine, the local sync database and the posts made to VLS
  media,        \* one conversion of a Bridge property's Media array into imageUrls
  backend,      \* the backend's routes: requests in flight and the state they keep in memory
  main          \* the desktop main process: activeSyncEngine and the engines it built

agentVars == <<state, pc, iteration, retries, response, waits, event, sentResponse,
               sentMessage, lastStatus, okPasses, dropped, goalOf>>

replayVars == <<workflow, replay>>

\* The variables outside the service worker
otherVars == <<replayVars, subst, page, sync, media, backend, main>>

\* The variables outside the replay, outside the substitution, outside the page
exceptReplay == <<agentVars, subst, page, sync, media, backend, main>>
exceptSubst == <<agentVars, replayVars, page, sync, media, backend, main>>
exceptPage == <<agentVars, replayVars, subst, sync, media, backend, main>>

\* The variables outside the sync engine, outside the Media conversion
exceptSync == <<agentVars, replayVars, subst, page, media, backend, main>>
exceptMedia == <<agentVars, replayVars, subst, page, sync, backend, main>>

\* The variables outside the backend's routes (which also write workflow), outside the main process
exceptBackend == <<agentVars, replay, subst, page, sync, media, main>>
exceptMain == <<agentVars, replayVars, subst, page, sync, media, backend>>

vars == <<agentVars, otherVars>>

locals == <<iteration, retries, response, waits, okPasses, goalOf>>

\* Inputs of run_agent
Goals == {"hello", "Hey!!", "What can you do?", "thanks", "click ok",
          "handle my listing"}
Tokens == {"tokA", "tokB"}

\* Results of chrome.tabs.query: the active tab's id (0: none) and its url
Tabs == {[id |-> 0, url |-> "https://vlshomes.com/add"],
         [id |-> 7, url |-> "chrome://extensions"],
         [id |-> 7, url |-> "https://vlshomes.com/add"]}

\* Ids the backend gives to created workflows
WorkflowIds == {41}

\* isJustAQuestion over the goals
QuestionGoals == {g \in Goals : isJustAQuestion(g)}

\* How a decision call fails: fetch rejects, or the route answers
\* {success: false, error} because the model's text holds no JSON payload
TransportErrors == {"Failed to fetch"}
ParseErrors == {"No JSON found in response"}
DecideErrors == TransportErrors \cup ParseErrors

InitialState ==
  [running |-> FALSE, goal |-> None, authToken |-> None, workflowId |-> 0, tabId |-> 0,
   messageHistory |-> <<>>, lastMouseX |-> 0, lastMouseY |-> 0,
   actionHistory |-> <<>>, currentStep |-> 0]

\* `response` before a decision was received
NoResponse == [action |-> None, done |-> FALSE]

\* The message or the settled await a step reacts to; ok: the await resolved
Event(h, await, ok, goal) ==
  [handler |-> h, await |-> await, ok |-> ok, goal |-> goal, error |-> ""]

\* The await was settled by an error with this message
Failure(h, await, error) == [Event(h, await, FALSE, "") EXCEPT !.error = error]

AgentInit ==
  /\ state = InitialState
  /\ pc = [h \in Handlers |-> "idle"]
  /\ iteration = [h \in Handlers |-> 0]
  /\ retries = [h \in Handlers |-> 0]
  /\ response = [h \in Handlers |-> NoResponse]
  /\ event = Event("", "", TRUE, "")
  /\ waits = [h \in Handlers |-> <<>>]
  /\ sentResponse = ""
  /\ sentMessage = ""
  /\ lastStatus = [running |-> FALSE, currentAction |-> ""]
  /\ okPasses = [h \in Handlers |-> 0]
  /\ goalOf = [h \in Handlers |-> ""]
  /\ dropped = FALSE

(***************************************************************************)
(* Deterministic playback: POST /api/extension/get-next-action and a       *)
(* client that replays a recorded trace for one listing with it.           *)
(***************************************************************************)
DigitChars == "0123456789"

\* \w of the placeholder pattern: [A-Za-z0-9_]
IsWordChar(c) ==
  \/ \E i \in 1..Len(UpperChars) : CharAt(UpperChars, i) = c \/ CharAt(LowerChars, i) = c
  \/ \E i \in 1..Len(DigitChars) : CharAt(DigitChars, i) = c
  \/ c = "_"

\* The position after the longest run of word characters of s that starts at i
RECURSIVE WordEnd(_, _)
WordEnd(s, i) ==
  IF i <= Len(s) /\ IsWordChar(CharAt(s, i)) THEN WordEnd(s, i + 1) ELSE i

\* Whether s has the text t at position i
HasAt(s, i, t) == i + Len(t) - 1 <= Len(s) /\ SubSeq(s, i, i + Len(t) - 1) = t

\* JavaScript's a || b on strings: the empty string (and null) is falsy
OrElse(a, b) == IF a # "" THEN a ELSE b

\* number?.toString(), "" standing for undefined
NumberToString(n) == IF n = None THEN "" ELSE ToString(n[1])

\* Names every object inherits from Object.prototype, all made of word characters
PrototypeMethods ==
  {"hasOwnProperty", "isPrototypeOf", "propertyIsEnumerable", "toLocaleString", "toString",
   "valueOf", "__defineGetter__", "__defineSetter__", "__lookupGetter__", "__lookupSetter__"}

\* object[name] for a name the object does not own, as String.prototype.replace
\* turns it into a string ("" standing for undefined): the lookup follows the
\* prototype chain, and a function or an object is truthy
InheritedProperty(name) ==
  CASE name = "constructor" -> "function Object() { [native code] }"
    [] name = "__proto__" -> "[object Object]"
    [] name \in PrototypeMethods -> "function " \o name \o "() { [native code] }"
    [] OTHER -> ""

\* listing.listingData?.[fieldName], "" standing for undefined
DataBag(listing, fieldName) ==
  IF fieldName \in DOMAIN listing.listingData
  THEN listing.listingData[fieldName]
  ELSE InheritedProperty(fieldName)

\* fieldMap[field], "" standing for undefined
fieldMap(listing, field) ==
  CASE field = "address" -> listing.address
    [] field = "city" -> listing.city
    [] field = "state" -> listing.state
    [] field = "zipcode" -> listing.zipCode
    [] field = "zip" -> listing.zipCode
    [] field = "price" -> NumberToString(listing.price)
    [] field = "bedrooms" -> NumberToString(listing.bedrooms)
    [] field = "bathrooms" -> NumberToString(listing.bathrooms)
    [] field = "squarefeet" -> NumberToString(listing.squareFeet)
    [] field = "description" -> listing.description
    [] field = "mlsnumber" -> listing.mlsNumber
    [] OTHER -> InheritedProperty(field)

\* The replacer callback: fieldMap[field] || listingData?.[fieldName] || match
Replacement(listing, match, fieldName) ==
  OrElse(fieldMap(listing, ToLowerCase(fieldName)), OrElse(DataBag(listing, fieldName), match))

\* value.replace(/{{(\w+)}}/g, replacer), scanning s from position i
RECURSIVE ReplaceFrom(_, _, _)
ReplaceFrom(listing, s, i) ==
  IF i > Len(s) THEN ""
  ELSE LET e == WordEnd(s, i + 2) IN
         IF HasAt(s, i, "{{") /\ e > i + 2 /\ HasAt(s, e, "}}")
         THEN Replacement(listing, SubSeq(s, i, e + 1), SubSeq(s, i + 2, e - 1))
                \o ReplaceFrom(listing, s, e + 2)
         ELSE CharAt(s, i) \o ReplaceFrom(listing, s, i + 1)

\* replacePlaceholders on an optional string: a value that is no string is returned as it is
replacePlaceholders(listing, value) ==
  IF Len(value) # 1 THEN value ELSE Some(ReplaceFrom(listing, value[1], 1))

\* The listings of the user in the database
Listings ==
  { [id |-> 7, address |-> "123 Main St", city |-> "Miami", state |-> "FL", zipCode |-> "33101",
     price |-> Some(250000), bedrooms |-> Some(3), bathrooms |-> Some(2), squareFeet |-> None,
     description |-> "", mlsNumber |-> "A100", listingData |-> [Pool |-> "yes"]],
    [id |-> 8, address |-> "9 Elm Rd", city |-> "", state |-> "FL", zipCode |-> "",
     price |-> Some(99), bedrooms |-> None, bathrooms |-> None, squareFeet |-> None,
     description |-> "", mlsNumber |-> "", listingData |-> [city |-> "Tampa"]] }

\* prisma.listing.findFirst({where: {id}}): the listings found
FindListing(listingId) == {l \in Listings : l.id = listingId}

\* Entries of recorded traces: kind, selector, text and value (None: the entry has no such field)
Entries ==
  { [action |-> "click", selector |-> Some("#user"), text |-> None, value |-> None],
    [action |-> "type", selector |-> Some("#addr"), text |-> Some("{{ADDRESS}}"),
     value |-> Some("{{price}} USD")],
    [action |-> "click", selector |-> Some("#submit"), text |-> None, value |-> None] }

\* Longest recorded trace of the model
MaxTraceLen == 3

\* Recorded traces
Traces == UNION {[1..n -> Entries] : n \in 0..MaxTraceLen}

WorkflowStatuses == {"learning", "ready", "active"}

\* Responses of the route
ErrorResponse(status, error) ==
  [success |-> FALSE, status |-> status, error |-> error, data |-> None]

DataResponse(data) == [success |-> TRUE, status |-> 200, error |-> "", data |-> Some(data)]

\* Variant of GetNextAction that reports completion one step early
GetNextAction_DoneEarly(wf, body) ==
  IF body.workflowId = 0 \/ body.listingId = 0
  THEN ErrorResponse(400, "workflowId and listingId are required")
  ELSE IF wf.id # body.workflowId
  THEN ErrorResponse(404, "Workflow not found")
  ELSE IF wf.status # "ready" /\ wf.status # "active"
  THEN ErrorResponse(400, "Workflow is not ready for deterministic playback")
  ELSE IF FindListing(body.listingId) = {}
  THEN ErrorResponse(404, "Listing not found")
  ELSE
    LET listing == CHOOSE l \in Listings : l.id = body.listingId
        actions == wf.recordedActions
        currentStep == body.currentStep
    IN IF currentStep + 1 >= Len(actions)
       THEN DataResponse([done |-> TRUE, message |-> "Workflow execution complete",
                          action |-> None, step |-> None, totalSteps |-> None])
       ELSE LET nextAction == actions[currentStep + 1]
                processedAction ==
                  [nextAction EXCEPT !.value = replacePlaceholders(listing, nextAction.value),
                                     !.text = replacePlaceholders(listing, nextAction.text)]
            IN DataResponse([done |-> FALSE, message |-> "", action |-> Some(processedAction),
                             step |-> Some(currentStep), totalSteps |-> Some(Len(actions))])

\* router.post('/get-next-action'): the response to a request body, wf being the
\* user's workflow in the database.  Trace entries are numbered from 0 in the
\* source and from 1 in the sequence recordedActions.
GetNextAction(wf, body) ==
  IF body.workflowId = 0 \/ body.listingId = 0
  THEN ErrorResponse(400, "workflowId and listingId are required")
  ELSE IF wf.id # body.workflowId
  THEN ErrorResponse(404, "Workflow not found")
  ELSE IF wf.status # "ready" /\ wf.status # "active"
  THEN ErrorResponse(400, "Workflow is not ready for deterministic playback")
  ELSE IF FindListing(body.listingId) = {}
  THEN ErrorResponse(404, "Listing not found")
  ELSE
    LET listing == CHOOSE l \in Listings : l.id = body.listingId
        actions == wf.recordedActions
        currentStep == body.currentStep
    IN IF currentStep >= Len(actions)
       THEN DataResponse([done |-> TRUE, message |-> "Workflow execution complete",
                          action |-> None, step |-> None, totalSteps |-> None])
       ELSE LET nextAction == actions[currentStep + 1]
                processedAction ==
                  [nextAction EXCEPT !.value = replacePlaceholders(listing, nextAction.value),
                                     !.text = replacePlaceholders(listing, nextAction.text)]
            IN DataResponse([done |-> FALSE, message |-> "", action |-> Some(processedAction),
                             step |-> Some(currentStep), totalSteps |-> Some(Len(actions))])

\* The ids <<workflowId, listingId>> a request may carry: the right ones, or one of
\* them missing (0) or not in the database
IdsAsked(listingId) ==
  {<<w, listingId>> : w \in WorkflowIds \cup {0, 99}} \cup {<<w, l>> : w \in WorkflowIds, l \in {0, 98}}

\* Failed executions the replay client of the model goes through at most
MaxReplayFailures == 1

\* The replay client before it was started
ReplayOff ==
  [rpc |-> "off", listingId |-> 0, start |-> 0, currentStep |-> 0, calls |-> 0, failures |-> 0,
   played |-> <<>>, body |-> None, answer |-> None]

\* A replay client about to replay for a listing from a cursor
ReplayReady(listingId, start) ==
  [ReplayOff EXCEPT !.rpc = "ready", !.listingId = listingId, !.start = start,
                    !.currentStep = start]

\* The workflow the orchestrator's runs record into
LearningWorkflow == [id |-> 41, status |-> "learning", recordedActions |-> <<>>]

(***************************************************************************)
(* Content script: typeText and typeAtCursor.  A JavaScript value is None   *)
(* (undefined, a missing field), Some(s) (the string s), Null or Num(n).    *)
(***************************************************************************)
Null == <<"null", 0>>
Num(n) == <<"number", n>>

\* typeof v
TypeOf(v) ==
  IF v = None THEN "undefined"
  ELSE IF Len(v) = 1 THEN "string"
  ELSE IF v = Null THEN "object"
  ELSE "number"

\* Whether v is truthy
Truthy(v) ==
  IF TypeOf(v) = "string" THEN v[1] # ""
  ELSE IF TypeOf(v) = "number" THEN v[2] # 0
  ELSE FALSE

\* a || b
OrJs(a, b) == IF Truthy(a) THEN a ELSE b

\* s.substring(from, to) and s.substring(from), positions counted from 0
Substring(s, from, to) ==
  LET lo == IF from > Len(s) THEN Len(s) ELSE from
      hi == IF to > Len(s) THEN Len(s) ELSE to
  IN IF lo <= hi THEN SubSeq(s, lo + 1, hi) ELSE SubSeq(s, hi + 1, lo)

SubstringFrom(s, from) == Substring(s, from, Len(s))

\* The element before the action: what querySelector / document.activeElement gives
\* ("none": null), its value and its selection
Elements ==
  {[kind |-> k, value |-> "old", selectionStart |-> sel[1], selectionEnd |-> sel[2]] :
     k \in {"none", "input", "editable"}, sel \in {<<0, 0>>, <<1, 1>>, <<1, 3>>, <<3, 3>>}}

\* The type and type_at_cursor actions the content script is given
TextValues == {None, Null, Num(0), Num(5), Some(""), Some("ab")}
ValueValues == {None, Num(7), Some("zz")}
TypeActions ==
  [action : {"type", "type_at_cursor"}, selector : {Some("#addr")}, text : TextValues,
   value : ValueValues]

\* The content script is not executing
PageOff ==
  [pc |-> "off", action |-> [action |-> "noop"], before |-> <<>>, element |-> <<>>,
   events |-> <<>>, error |-> "", rest |-> ""]

\* Pieces of the strings the substitution is applied to: text without a token,
\* tokens of the field map and of the data bags, and tokens of neither
Pieces ==
  {"at ", "{{a b}}", "{{ADDRESS}}", "{{city}}", "{{Pool}}", "{{bogus}}", "{{constructor}}",
   "{{toString}}"}

\* Most pieces of a string
MaxPieces == 2

PieceSeqs == UNION {[1..n -> Pieces] : n \in 0..MaxPieces}

RECURSIVE Concat(_)
Concat(strings) == IF strings = <<>> THEN "" ELSE Head(strings) \o Concat(Tail(strings))

(***************************************************************************)
(* Desktop application: the sync engine (src/src/sync/engine.ts).  Each    *)
(* start-sync builds a new engine; the local sync database and the VLS     *)
(* site outlive the engines.                                               *)
(***************************************************************************)
MlsNumbers == {"A100", "B200"}

MaxListings == 2
MaxSessions == 2

\* What fetchListings may resolve to: the mlsNumber of each listing, in order
Feeds == UNION {[1..n -> MlsNumbers] : n \in 0..MaxListings}

\* How a call into the local JSON database ends
DbOutcomes == {"ok", "throws"}

\* The state of an engine after its constructor
SyncEngineState == [isRunning |-> FALSE, shouldStop |-> FALSE, currentSession |-> Null]

\* The session start() creates
NewSession == [totalListings |-> 0, posted |-> 0, failed |-> 0, skipped |-> 0, results |-> <<>>]

\* Before the first sync: nothing is recorded in the database, nothing was posted.
\* synced is the database's set of MLS numbers; vlsPosts counts, per MLS number, the
\* postListing calls that succeeded; sessions counts the calls of start().
SyncIdle ==
  [pc |-> "idle", state |-> SyncEngineState, session |-> NewSession, listings |-> <<>>,
   i |-> 0, synced |-> {}, vlsPosts |-> [n \in MlsNumbers |-> 0], sessions |-> 0]

\* The sync engine is not part of the behaviour
SyncOff == [SyncIdle EXCEPT !.pc = "off"]

(***************************************************************************)
(* Desktop application: the Bridge API client (src/src/mls/api-client.ts). *)
(* A JavaScript array is Arr(items).                                       *)
(***************************************************************************)
Arr(items) == <<"array", items>>

\* Array.isArray(v)
IsArray(v) == Len(v) = 2 /\ v[1] = "array"

\* The Media items a property may carry
MediaItems ==
  {[MediaCategory |-> Some("Photo"), MediaURL |-> Some("p2.jpg"), Order |-> Num(2)],
   [MediaCategory |-> Some("Photo"), MediaURL |-> Some("p1.jpg"), Order |-> Num(1)],
   [MediaCategory |-> None, MediaURL |-> Some("n3.jpg"), Order |-> Num(3)],
   [MediaCategory |-> Null, MediaURL |-> Some("n1.jpg"), Order |-> Num(1)],
   [MediaCategory |-> Some("Video"), MediaURL |-> Some("v1.mp4"), Order |-> Num(1)],
   [MediaCategory |-> Some("Photo"), MediaURL |-> Some(""), Order |-> Num(2)],
   [MediaCategory |-> Some("Photo"), MediaURL |-> None, Order |-> Num(3)],
   [MediaCategory |-> Some("Photo"), MediaURL |-> Some("p0.jpg"), Order |-> None]}

MaxMedia == 3

\* The Media field of a property: missing, null, or an array of items
MediaValues ==
  {None, Null} \cup {Arr(items) : items \in UNION {[1..n -> MediaItems] : n \in 0..MaxMedia}}

\* The properties the API returns, as far as convertProperty's imageUrls reads them
BridgeProperties == {[ListingId |-> Some("A100"), Media |-> md] : md \in MediaValues}

\* The key of the comparator (a, b) => (a.Order || 0) - (b.Order || 0)
OrderKey(m) == OrJs(m.Order, Num(0))[2]

\* Array.prototype.sort with that comparator: a stable sort, as an insertion sort
RECURSIVE InsertByOrder(_, _)
InsertByOrder(sorted, m) ==
  IF sorted = <<>> THEN <<m>>
  ELSE LET last == sorted[Len(sorted)] IN
         IF OrderKey(last) - OrderKey(m) <= 0
         THEN Append(sorted, m)
         ELSE Append(InsertByOrder(SubSeq(sorted, 1, Len(sorted) - 1), m), last)

RECURSIVE SortByOrder(_)
SortByOrder(items) ==
  IF items = <<>> THEN <<>>
  ELSE InsertByOrder(SortByOrder(SubSeq(items, 1, Len(items) - 1)), items[Len(items)])

\* A filter that keeps every category
IsPhoto_AnyCategory(m) == TRUE

\* .filter(m => !m.MediaCategory || m.MediaCategory === 'Photo')
IsPhoto(m) == ~Truthy(m.MediaCategory) \/ m.MediaCategory = Some("Photo")

\* The loop that pushes media.MediaURL when it is truthy
RECURSIVE PushUrls(_)
PushUrls(sortedMedia) ==
  IF sortedMedia = <<>> THEN <<>>
  ELSE (IF Truthy(Head(sortedMedia).MediaURL) THEN <<Head(sortedMedia).MediaURL[1]>> ELSE <<>>)
         \o PushUrls(Tail(sortedMedia))

\* convertProperty(prop), its mlsNumber and imageUrls
convertProperty(prop) ==
  [mlsNumber |-> prop.ListingId,
   imageUrls |->
     IF IsArray(prop.Media) /\ Len(prop.Media[2]) > 0
     THEN PushUrls(SortByOrder(SelectSeq(prop.Media[2], IsPhoto)))
     ELSE <<>>]

\* No conversion is in progress
MediaOff ==
  [pc |-> "off", prop |-> [ListingId |-> None, Media |-> None],
   listing |-> [mlsNumber |-> None, imageUrls |-> <<>>]]

\* The strings the fields of a recorded entry hold, as pieces
FieldTemplates ==
  [selector |-> {<<"#addr">>, <<"#row-", "{{city}}">>},
   text |-> {<<"{{ADDRESS}}">>},
   value |-> {<<"{{Pool}}", " pool">>},
   url |-> {<<"/new?city=", "{{city}}">>},
   filepath |-> {<<"{{ADDRESS}}", ".jpg">>},
   key |-> {<<"{{city}}">>}]

\* The string-valued fields an action may carry
StringFields == DOMAIN FieldTemplates

TemplateStrings(field) == {Some(Concat(ps)) : ps \in FieldTemplates[field]}

\* Recorded entries with placeholders in their fields; a field may be missing, text may
\* be a number, and x is a number when present
TemplateEntries ==
  [action : {"type", "navigate"},
   selector : TemplateStrings("selector"),
   text : {None, Num(5)} \cup TemplateStrings("text"),
   value : {None} \cup TemplateStrings("value"),
   url : {None} \cup TemplateStrings("url"),
   filepath : {None} \cup TemplateStrings("filepath"),
   key : {None} \cup TemplateStrings("key"),
   x : {None, Num(120)}]

\* No request is in flight at the backend
\* The /record-action requests the server handles at a time
Requests == {"q1", "q2"}

\* Most /record-action requests of a behaviour
MaxRequests == 3

\* No request is being handled
NoRequest ==
  [pc |-> "idle", body |-> [workflowId |-> 0, action |-> None], updatedActions |-> <<>>,
   res |-> None]

\* Most /ai-decision requests of a behaviour
MaxDecisions == 3

\* new Map(): no session has a stored history
NoHistories == [k \in {} |-> <<>>]

\* No /ai-decision request is awaiting the model.  historyKey is the session's key;
\* stored is whether `messages` is the array the map holds for that key, and messages
\* is the array of the request when it is not
NoCall == [pc |-> "idle", historyKey |-> "", stored |-> FALSE, messages |-> <<>>, asked |-> 0,
           status |-> 0]

\* The server outside a behaviour of its routes
BackendOff ==
  [pc |-> "off", model |-> [tool |-> "none", text |-> None, stop_reason |-> ""],
   data |-> None, error |-> "",
   requests |-> [q \in Requests |-> NoRequest], served |-> 0, now |-> 0,
   conversationHistory |-> NoHistories, call |-> NoCall]

\* Most SyncEngine objects the main process builds in a behaviour
MaxEngines == 3

\* new SyncEngine(config) after start() ran up to its first await; `after` is the
\* position of the continuation main.ts chained to start(), `cleaning` the engine
\* whose cleanup() that continuation awaits (0: none)
StartedEngine == [isRunning |-> TRUE, shouldStop |-> FALSE, after |-> "none", cleaning |-> 0]

\* The main process outside a behaviour of its sync handlers: activeSyncEngine is
\* null (0), no engine was built, nothing was answered
MainOff == [pc |-> "off", activeSyncEngine |-> 0, engines |-> <<>>, answer |-> ""]

\* No substitution is in progress
SubstOff ==
  [pc |-> "off", listingId |-> 0, pieces |-> <<>>, output |-> None, answer |-> None]

Init ==
  /\ AgentInit
  /\ workflow = LearningWorkflow
  /\ replay = ReplayOff
  /\ subst = SubstOff
  /\ page = PageOff
  /\ sync = SyncOff
  /\ backend = BackendOff
  /\ main = MainOff
  /\ media = MediaOff

Status(currentAction, running) == [running |-> running, currentAction |-> currentAction]

\* updateStatus(currentAction, progress) with running defaulting to true
updateStatus(currentAction) == lastStatus' = Status(currentAction, TRUE)

\* The fields stopAgent resets
stopAgentState(s) ==
  [s EXCEPT !.running = FALSE, !.goal = None, !.messageHistory = <<>>, !.actionHistory = <<>>]

\* The fields runAgent sets once the guards are passed
startedState(s, goal, authToken) ==
  [s EXCEPT !.running = TRUE, !.goal = Some(goal), !.authToken = Some(authToken),
            !.messageHistory = <<>>, !.lastMouseX = 0, !.lastMouseY = 0,
            !.actionHistory = <<>>, !.currentStep = 0]

\* Variant of pushHistory that never evicts
pushHistory_NoShift(history, entry) == Append(history, entry)

\* actionHistory.push(entry); if (length > limit) shift()
pushHistory(history, entry) ==
  LET pushed == Append(history, entry) IN
    IF Len(pushed) > HistoryLimit THEN Tail(pushed) ELSE pushed

Free(h) == pc[h] = "idle"

\* The activation takes the first free handler
FirstFree(h) == Free(h) /\ \A g \in Handlers : Free(g) => (h = "h1" \/ g # "h1")

\* The listener answers and the activation is over
Respond(h, result) ==
  /\ pc' = [pc EXCEPT ![h] = "idle"]
  /\ sentResponse' = result
  /\ iteration' = [iteration EXCEPT ![h] = 0]
  /\ retries' = [retries EXCEPT ![h] = 0]
  /\ response' = [response EXCEPT ![h] = NoResponse]
  /\ waits' = [waits EXCEPT ![h] = <<>>]
  /\ okPasses' = [okPasses EXCEPT ![h] = 0]
  /\ goalOf' = [goalOf EXCEPT ![h] = ""]

\* stop_agent message: stopAgent() runs at once
StopAgent ==
  /\ event' = Event("", "stop_agent", TRUE, "")
  /\ UNCHANGED otherVars
  /\ state' = stopAgentState(state)
  /\ lastStatus' = Status("Agent stopped", FALSE)
  /\ dropped' = FALSE
  /\ sentMessage' = ""
  /\ sentResponse' = ""
  /\ UNCHANGED <<pc, locals>>

\* Variant of RunAgent without the single-flight guard
RunAgent_NoGuard(h, goal, authToken) ==
  /\ FirstFree(h)
  /\ event' = Event(h, "run_agent", TRUE, goal)
  /\ UNCHANGED otherVars
  /\ IF goal \in QuestionGoals
     THEN /\ sentMessage' = HelpMessage
          /\ Respond(h, "success")
          /\ UNCHANGED <<state, lastStatus, dropped>>
     ELSE /\ state' = startedState(state, goal, authToken)
          /\ dropped' = FALSE
          /\ sentMessage' = ""
          /\ pc' = [pc EXCEPT ![h] = "tabs"]
          /\ goalOf' = [goalOf EXCEPT ![h] = goal]
          /\ sentResponse' = ""
          /\ UNCHANGED <<lastStatus, iteration, retries, response, waits, okPasses>>

\* run_agent message: runAgent up to its first await
RunAgent(h, goal, authToken) ==
  /\ FirstFree(h)
  /\ event' = Event(h, "run_agent", TRUE, goal)
  /\ UNCHANGED otherVars
  /\ IF state.running
     THEN /\ Respond(h, "Agent is already running")
          /\ sentMessage' = ""
          /\ UNCHANGED <<state, lastStatus, dropped>>
     ELSE IF goal \in QuestionGoals
     THEN /\ sentMessage' = HelpMessage
          /\ Respond(h, "success")
          /\ UNCHANGED <<state, lastStatus, dropped>>
     ELSE /\ state' = startedState(state, goal, authToken)
          /\ dropped' = FALSE
          /\ sentMessage' = ""
          /\ pc' = [pc EXCEPT ![h] = "tabs"]
          /\ goalOf' = [goalOf EXCEPT ![h] = goal]
          /\ sentResponse' = ""
          /\ UNCHANGED <<lastStatus, iteration, retries, response, waits, okPasses>>

\* chrome.tabs.query resolves
TabsQueried(h, tab) ==
  /\ pc[h] = "tabs"
  /\ event' = Event(h, "tabs", TRUE, "")
  /\ UNCHANGED otherVars
  /\ sentMessage' = ""
  /\ UNCHANGED dropped
  /\ IF tab.id = 0
     THEN /\ Respond(h, "No active tab found")
          /\ UNCHANGED <<state, lastStatus>>
     ELSE IF StartsWith(tab.url, "chrome://") \/ StartsWith(tab.url, "edge://")
             \/ StartsWith(tab.url, "about:") \/ tab.url = ""
     THEN /\ Respond(h, "Cannot automate on browser internal pages")
          /\ UNCHANGED <<state, lastStatus>>
     ELSE /\ state' = [state EXCEPT !.tabId = tab.id]
          /\ updateStatus("Creating workflow...")
          /\ pc' = [pc EXCEPT ![h] = "workflow"]
          /\ sentResponse' = ""
          /\ UNCHANGED locals

\* POST /api/workflows resolves: created is the new id, or 0 when it failed
WorkflowCreated(h, created) ==
  /\ pc[h] = "workflow"
  /\ event' = Event(h, "workflow", created # 0, "")
  /\ UNCHANGED otherVars
  /\ UNCHANGED dropped
  /\ IF created = 0
     THEN /\ Respond(h, "Failed to create workflow: Failed to create workflow")
          /\ sentMessage' = ""
          /\ UNCHANGED <<state, lastStatus>>
     ELSE /\ state' = [state EXCEPT !.workflowId = created]
          /\ updateStatus("Workflow created")
          /\ sentMessage' = "Created workflow"
          /\ pc' = [pc EXCEPT ![h] = "pageinfo"]
          /\ sentResponse' = ""
          /\ UNCHANGED locals

\* get_page_info (and clear_error_logs) resolve: is the content script loaded?
ContentScriptChecked(h, loaded) ==
  /\ pc[h] = "pageinfo"
  /\ event' = Event(h, "pageinfo", loaded, "")
  /\ UNCHANGED otherVars
  /\ sentMessage' = ""
  /\ sentResponse' = ""
  /\ UNCHANGED <<state, dropped, locals>>
  /\ IF loaded
     THEN /\ updateStatus("Starting agent...")
          /\ pc' = [pc EXCEPT ![h] = "overlay"]
     ELSE /\ pc' = [pc EXCEPT ![h] = "inject"]
          /\ UNCHANGED lastStatus

\* chrome.scripting.executeScript (and the 500 ms wait) resolve
ScriptInjected(h, injected) ==
  /\ pc[h] = "inject"
  /\ event' = Event(h, "inject", injected, "")
  /\ UNCHANGED otherVars
  /\ sentMessage' = ""
  /\ UNCHANGED <<state, dropped>>
  /\ IF injected
     THEN /\ updateStatus("Starting agent...")
          /\ pc' = [pc EXCEPT ![h] = "overlay"]
          /\ sentResponse' = ""
          /\ UNCHANGED locals
     ELSE /\ Respond(h, "Failed to load automation script on this page. Try refreshing the page.")
          /\ UNCHANGED lastStatus

\* finally { stopAgent() } and the listener's sendResponse({success: true})
Teardown(h) ==
  /\ state' = stopAgentState(state)
  /\ lastStatus' = Status("Agent stopped", FALSE)
  /\ dropped' = FALSE
  /\ Respond(h, "success")

\* The loop is left by its condition or by break; message was sent just before
LeaveLoop(h, it, message) ==
  /\ sentMessage' = IF it >= MAX_ITERATIONS
                    THEN "Reached maximum iterations. Task may not be complete."
                    ELSE message
  /\ Teardown(h)

\* catch (error) of the loop
FailRun(h, message) ==
  /\ sentMessage' = "Error: " \o message
  /\ Teardown(h)

\* Variant of LoopTop whose loop condition does not consult state.running
LoopTop_IgnoresStop(h, it) ==
  IF it < MAX_ITERATIONS
  THEN /\ iteration' = [iteration EXCEPT ![h] = it + 1]
       /\ updateStatus("Taking screenshot...")
       /\ sentMessage' = ""
       /\ pc' = [pc EXCEPT ![h] = "capture"]
       /\ sentResponse' = ""
       /\ UNCHANGED <<state, dropped, retries, response, waits, okPasses, goalOf>>
  ELSE LeaveLoop(h, it, "")

\* while (state.running && iteration < MAX_ITERATIONS) { iteration++; ... await captureScreenshot()
LoopTop(h, it) ==
  IF state.running /\ it < MAX_ITERATIONS
  THEN /\ iteration' = [iteration EXCEPT ![h] = it + 1]
       /\ updateStatus("Taking screenshot...")
       /\ sentMessage' = ""
       /\ pc' = [pc EXCEPT ![h] = "capture"]
       /\ sentResponse' = ""
       /\ UNCHANGED <<state, dropped, retries, response, waits, okPasses, goalOf>>
  ELSE LeaveLoop(h, it, "")

\* show_overlay resolves or fails (the failure is only logged); the loop starts
OverlayShown(h) ==
  /\ pc[h] = "overlay"
  /\ event' = Event(h, "overlay", TRUE, "")
  /\ UNCHANGED otherVars
  /\ LoopTop(h, 0)

\* captureScreenshot, get_page_info and inspect_page resolve, or one of them fails
Captured(h, ok) ==
  /\ pc[h] = "capture"
  /\ event' = Event(h, "capture", ok, "")
  /\ UNCHANGED otherVars
  /\ IF ok
     THEN /\ updateStatus("Thinking...")
          /\ sentMessage' = ""
          /\ retries' = [retries EXCEPT ![h] = 0]
          /\ waits' = [waits EXCEPT ![h] = <<>>]
          /\ pc' = [pc EXCEPT ![h] = "decide"]
          /\ sentResponse' = ""
          /\ UNCHANGED <<state, dropped, iteration, response, okPasses, goalOf>>
     ELSE FailRun(h, "Tab message failed")

RECURSIVE Pow2(_)
Pow2(n) == IF n = 0 THEN 1 ELSE 2 * Pow2(n - 1)

ApiFailedMessage(cause) ==
  "API failed after " \o ToString(MAX_RETRIES) \o " attempts: " \o cause

\* The checks on a decision: completion phrase in the text, or no action
IsComplete(textResponse, act) ==
  \/ Includes(ToLowerCase(textResponse), "task complete")
  \/ Includes(ToLowerCase(textResponse), "finished")
  \/ act = None

\* fetch(/ai-decision) resolves with {success: true, data}; r is the model's response
\* What the backend answers to each response of the model, and whether the loop breaks on it
Decisions ==
  { LET data == AiDecisionData(r) IN
      [response |-> data.response, action |-> data.action, done |-> data.done,
       complete |-> IsComplete(data.response, data.action)] : r \in ModelResponses }

\* Variant of Decided in which receiving a decision advances the step cursor
Decided_AdvancesCursor(h, data) ==
  /\ pc[h] = "decide"
  /\ event' = Event(h, "decide", TRUE, "")
  /\ UNCHANGED otherVars
  /\ LET textResponse == data.response
         act == data.action
     IN IF data.complete
        THEN LeaveLoop(h, iteration[h], textResponse)
        ELSE /\ sentMessage' = textResponse
             /\ response' = [response EXCEPT ![h] = [action |-> act, done |-> data.done]]
             /\ updateStatus("Executing: " \o act[1])
             /\ pc' = [pc EXCEPT ![h] = "execute"]
             /\ sentResponse' = ""
             /\ state' = [state EXCEPT !.currentStep = @ + 1]
             /\ UNCHANGED <<dropped, iteration, retries, waits, okPasses, goalOf>>

\* fetch(/ai-decision) resolves with {success: true, data}
Decided(h, data) ==
  /\ pc[h] = "decide"
  /\ event' = Event(h, "decide", TRUE, "")
  /\ UNCHANGED otherVars
  /\ LET textResponse == data.response
         act == data.action
     IN IF data.complete
        THEN LeaveLoop(h, iteration[h], textResponse)
        ELSE /\ sentMessage' = textResponse
             /\ response' = [response EXCEPT ![h] = [action |-> act, done |-> data.done]]
             /\ updateStatus("Executing: " \o act[1])
             /\ pc' = [pc EXCEPT ![h] = "execute"]
             /\ sentResponse' = ""
             /\ UNCHANGED <<state, dropped, iteration, retries, waits, okPasses, goalOf>>

\* Variant of DecideFailed that skips the iteration when the attempts are used up
DecideFailed_SkipsIteration(h, cause) ==
  /\ pc[h] = "decide"
  /\ event' = Failure(h, "decide", cause)
  /\ UNCHANGED otherVars
  /\ retries' = [retries EXCEPT ![h] = retries[h] + 1]
  /\ sentMessage' = ""
  /\ sentResponse' = ""
  /\ UNCHANGED <<state, dropped, iteration, response, okPasses, goalOf>>
  /\ IF retries[h] + 1 >= MAX_RETRIES
     THEN /\ pc' = [pc EXCEPT ![h] = "pause"]
          /\ UNCHANGED <<waits, lastStatus>>
     ELSE /\ updateStatus("API error, retrying...")
          /\ waits' = [waits EXCEPT ![h] = Append(waits[h], BackoffBaseMs * Pow2(retries[h] + 1))]
          /\ pc' = [pc EXCEPT ![h] = "backoff"]

\* fetch(/ai-decision) rejects, or answers {success: false, error}
DecideFailed(h, cause) ==
  /\ pc[h] = "decide"
  /\ event' = Failure(h, "decide", cause)
  /\ UNCHANGED otherVars
  /\ IF retries[h] + 1 >= MAX_RETRIES
     THEN FailRun(h, ApiFailedMessage(cause))
     ELSE /\ retries' = [retries EXCEPT ![h] = retries[h] + 1]
          /\ updateStatus("API error, retrying...")
          /\ sentMessage' = ""
          /\ waits' = [waits EXCEPT ![h] = Append(waits[h], BackoffBaseMs * Pow2(retries[h] + 1))]
          /\ pc' = [pc EXCEPT ![h] = "backoff"]
          /\ sentResponse' = ""
          /\ UNCHANGED <<state, dropped, iteration, response, okPasses, goalOf>>

\* The backoff wait is over: next attempt
BackoffDone(h) ==
  /\ pc[h] = "backoff"
  /\ event' = Event(h, "backoff", TRUE, "")
  /\ UNCHANGED otherVars
  /\ pc' = [pc EXCEPT ![h] = "decide"]
  /\ sentMessage' = ""
  /\ sentResponse' = ""
  /\ UNCHANGED <<state, lastStatus, dropped, locals>>

\* Variant of ExecutionFailed that goes on to send record-action
ExecutionFailed_Records(h, err) ==
  /\ state' = [state EXCEPT !.actionHistory =
                  pushHistory(@, [action |-> response[h].action[1], result |-> "failed: " \o err])]
  /\ dropped' = (dropped \/ Len(state.actionHistory) >= HistoryLimit)
  /\ sentMessage' = "Action failed: " \o err
  /\ iteration' = [iteration EXCEPT ![h] = iteration[h] - 1]
  /\ pc' = [pc EXCEPT ![h] = "record"]

\* catch (error) of the execution: the failure is pushed to the history and sent to
\* the popup, the attempt is not counted, and the pass goes on to its wait
ExecutionFailed(h, err) ==
  /\ state' = [state EXCEPT !.actionHistory =
                  pushHistory(@, [action |-> response[h].action[1], result |-> "failed: " \o err])]
  /\ dropped' = (dropped \/ Len(state.actionHistory) >= HistoryLimit)
  /\ sentMessage' = "Action failed: " \o err
  /\ iteration' = [iteration EXCEPT ![h] = iteration[h] - 1]
  /\ pc' = [pc EXCEPT ![h] = "pause"]

\* Variant of Executed that counts a failed attempt as an iteration
Executed_CountsFailure(h, err) ==
  /\ pc[h] = "execute"
  /\ event' = IF err = "" THEN Event(h, "execute", TRUE, "") ELSE Failure(h, "execute", err)
  /\ UNCHANGED otherVars
  /\ err \in ExecuteOutcomes(response[h].action[1])
  /\ sentResponse' = ""
  /\ UNCHANGED <<retries, response, waits, lastStatus, okPasses, iteration, goalOf>>
  /\ IF err = ""
     THEN /\ pc' = [pc EXCEPT ![h] = "record"]
          /\ sentMessage' = ""
          /\ UNCHANGED <<state, dropped>>
     ELSE /\ state' = [state EXCEPT !.actionHistory =
                         pushHistory(@, [action |-> response[h].action[1], result |-> "failed: " \o err])]
          /\ dropped' = (dropped \/ Len(state.actionHistory) >= HistoryLimit)
          /\ sentMessage' = "Action failed: " \o err
          /\ pc' = [pc EXCEPT ![h] = "pause"]

\* executeActionOnTab resolves (err = "") or rejects with err
Executed(h, err) ==
  /\ pc[h] = "execute"
  /\ event' = IF err = "" THEN Event(h, "execute", TRUE, "") ELSE Failure(h, "execute", err)
  /\ UNCHANGED otherVars
  /\ err \in ExecuteOutcomes(response[h].action[1])
  /\ sentResponse' = ""
  /\ UNCHANGED <<retries, response, waits, lastStatus, okPasses, goalOf>>
  /\ IF err = ""
     THEN /\ pc' = [pc EXCEPT ![h] = "record"]
          /\ sentMessage' = ""
          /\ UNCHANGED <<state, iteration, dropped>>
     ELSE ExecutionFailed(h, err)

\* Variant of Recorded without the inner try/catch: a rejected request is handled
\* by the catch of the execution
Recorded_FailureEscapes(h, ok) ==
  /\ pc[h] = "record"
  /\ event' = IF ok THEN Event(h, "record", TRUE, "") ELSE Failure(h, "record", "Failed to fetch")
  /\ UNCHANGED otherVars
  /\ sentResponse' = ""
  /\ UNCHANGED <<retries, response, waits, lastStatus, goalOf>>
  /\ IF ok
     THEN /\ state' = [state EXCEPT !.actionHistory =
                         pushHistory(@, [action |-> response[h].action[1], result |-> "success"]),
                                    !.currentStep = @ + 1]
          /\ dropped' = (dropped \/ Len(state.actionHistory) >= HistoryLimit)
          /\ okPasses' = [okPasses EXCEPT ![h] = okPasses[h] + 1]
          /\ pc' = [pc EXCEPT ![h] = "pause"]
          /\ sentMessage' = ""
          /\ UNCHANGED iteration
     ELSE /\ ExecutionFailed(h, "Failed to fetch")
          /\ UNCHANGED okPasses

\* fetch(/record-action) resolves (ok) or rejects; the rejection is caught and logged,
\* and either way the action is pushed to the history as a success
Recorded(h, ok) ==
  /\ pc[h] = "record"
  /\ event' = IF ok THEN Event(h, "record", TRUE, "") ELSE Failure(h, "record", "Failed to fetch")
  /\ UNCHANGED otherVars
  /\ state' = [state EXCEPT !.actionHistory =
                               pushHistory(@, [action |-> response[h].action[1], result |-> "success"]),
                            !.currentStep = @ + 1]
  /\ dropped' = (dropped \/ Len(state.actionHistory) >= HistoryLimit)
  /\ okPasses' = [okPasses EXCEPT ![h] = okPasses[h] + 1]
  /\ pc' = [pc EXCEPT ![h] = "pause"]
  /\ sentMessage' = ""
  /\ sentResponse' = ""
  /\ UNCHANGED <<iteration, retries, response, waits, lastStatus, goalOf>>

\* wait(1500) is over: the loop condition is evaluated
Paused(h) ==
  /\ pc[h] = "pause"
  /\ event' = Event(h, "pause", TRUE, "")
  /\ UNCHANGED otherVars
  /\ LoopTop(h, iteration[h])

ExecuteErrors == UNION {ExecuteOutcomes(k) : k \in {"click_coordinates", "done"}}

\* The popup of this specification submits a task only when every earlier activation
\* has returned; while state.running, or with a question, it may send run_agent at any time
PopupMaySend(goal) ==
  state.running \/ goal \in QuestionGoals \/ \A h \in Handlers : Free(h)

Next ==
  \/ StopAgent
  \/ \E h \in Handlers, goal \in Goals, authToken \in Tokens :
       PopupMaySend(goal) /\ RunAgent(h, goal, authToken)
  \/ \E h \in Handlers, tab \in Tabs : TabsQueried(h, tab)
  \/ \E h \in Handlers, created \in WorkflowIds \cup {0} : WorkflowCreated(h, created)
  \/ \E h \in Handlers, loaded \in BOOLEAN : ContentScriptChecked(h, loaded)
  \/ \E h \in Handlers, injected \in BOOLEAN : ScriptInjected(h, injected)
  \/ \E h \in Handlers : OverlayShown(h)
  \/ \E h \in Handlers, ok \in BOOLEAN : Captured(h, ok)
  \/ \E h \in Handlers, data \in Decisions : Decided(h, data)
  \/ \E h \in Handlers, cause \in DecideErrors : DecideFailed(h, cause)
  \/ \E h \in Handlers : BackoffDone(h)
  \/ \E h \in Handlers, err \in ExecuteErrors : Executed(h, err)
  \/ \E h \in Handlers, ok \in BOOLEAN : Recorded(h, ok)
  \/ \E h \in Handlers : Paused(h)

Spec == Init /\ [][Next]_vars


\* Every pending await of an activation settles
HandlerStep(h) ==
  \/ \E tab \in Tabs : TabsQueried(h, tab)
  \/ \E created \in WorkflowIds \cup {0} : WorkflowCreated(h, created)
  \/ \E loaded \in BOOLEAN : ContentScriptChecked(h, loaded)
  \/ \E injected \in BOOLEAN : ScriptInjected(h, injected)
  \/ OverlayShown(h)
  \/ \E ok \in BOOLEAN : Captured(h, ok)
  \/ \E data \in Decisions : Decided(h, data)
  \/ \E cause \in DecideErrors : DecideFailed(h, cause)
  \/ BackoffDone(h)
  \/ \E err \in ExecuteErrors : Executed(h, err)
  \/ \E ok \in BOOLEAN : Recorded(h, ok)
  \/ Paused(h)

\* The tasks among the goals, and the tabs a run can automate
TaskGoals == Goals \ QuestionGoals
WorkingTabs == {tab \in Tabs : tab.id # 0 /\ StartsWith(tab.url, "https://")}

\* The popup sends run_agent and stop_agent at any time, one user asking for tasks on
\* a page that can be automated; no request of the runs fails
ConcurrentNext ==
  \/ StopAgent
  \/ \E h \in Handlers, goal \in TaskGoals : RunAgent(h, goal, "tokA")
  \/ \E h \in Handlers, tab \in WorkingTabs : TabsQueried(h, tab)
  \/ \E h \in Handlers, created \in WorkflowIds : WorkflowCreated(h, created)
  \/ \E h \in Handlers : ContentScriptChecked(h, TRUE)
  \/ \E h \in Handlers : OverlayShown(h)
  \/ \E h \in Handlers : Captured(h, TRUE)
  \/ \E h \in Handlers, data \in Decisions : Decided(h, data)
  \/ \E h \in Handlers : Executed(h, "")
  \/ \E h \in Handlers : Recorded(h, TRUE)
  \/ \E h \in Handlers : Paused(h)

ConcurrentSpec == Init /\ [][ConcurrentNext]_vars

\* One popup that submits tasks and never sends stop_agent; every await settles
LiveNext ==
  \/ \E goal \in Goals, authToken \in Tokens :
       PopupMaySend(goal) /\ RunAgent("h1", goal, authToken)
  \/ HandlerStep("h1")

\* Each await of the activation settles once it is pending
Settles(h) ==
  /\ WF_vars(\E tab \in Tabs : TabsQueried(h, tab))
  /\ WF_vars(\E created \in WorkflowIds \cup {0} : WorkflowCreated(h, created))
  /\ WF_vars(\E loaded \in BOOLEAN : ContentScriptChecked(h, loaded))
  /\ WF_vars(\E injected \in BOOLEAN : ScriptInjected(h, injected))
  /\ WF_vars(OverlayShown(h))
  /\ WF_vars(\E ok \in BOOLEAN : Captured(h, ok))
  /\ WF_vars((\E data \in Decisions : Decided(h, data))
               \/ (\E cause \in DecideErrors : DecideFailed(h, cause)))
  /\ WF_vars(BackoffDone(h))
  /\ WF_vars(\E err \in ExecuteErrors : Executed(h, err))
  /\ WF_vars(\E ok \in BOOLEAN : Recorded(h, ok))
  /\ WF_vars(Paused(h))

LiveSpec == Init /\ [][LiveNext]_vars /\ Settles("h1")

\* The client asks for the action at its cursor
ReplayAsk(workflowId, listingId) ==
  /\ replay.rpc = "ready"
  /\ replay' = [replay EXCEPT !.rpc = "asked", !.calls = @ + 1, !.answer = None,
                              !.body = Some([workflowId |-> workflowId, listingId |-> listingId,
                                             currentStep |-> replay.currentStep])]
  /\ UNCHANGED <<workflow, exceptReplay>>

\* The route answers; the client stops on an error and on done
GetNextActionAnswered ==
  /\ replay.rpc = "asked"
  /\ LET res == GetNextAction(workflow, replay.body[1]) IN
       replay' = [replay EXCEPT !.answer = Some(res),
                                !.rpc = IF ~res.success THEN "failed"
                                        ELSE IF res.data[1].done THEN "finished"
                                        ELSE "execute"]
  /\ UNCHANGED <<workflow, exceptReplay>>

\* The client executed the action: the cursor advances on success only
ReplayExecuted(ok) ==
  /\ replay.rpc = "execute"
  /\ ok \/ replay.failures < MaxReplayFailures
  /\ replay' = IF ok
               THEN [replay EXCEPT !.rpc = "ready", !.currentStep = @ + 1,
                                   !.played = Append(@, replay.answer[1].data[1].action[1])]
               ELSE [replay EXCEPT !.rpc = "ready", !.failures = @ + 1]
  /\ UNCHANGED <<workflow, exceptReplay>>

ReplayInit ==
  /\ AgentInit
  /\ subst = SubstOff
  /\ page = PageOff
  /\ sync = SyncOff
  /\ backend = BackendOff
  /\ main = MainOff
  /\ media = MediaOff
  /\ workflow \in {[id |-> 41, status |-> s, recordedActions |-> t] :
                     s \in WorkflowStatuses, t \in Traces}
  /\ replay \in {ReplayReady(l.id, start) :
                   l \in Listings, start \in {0, Len(workflow.recordedActions) + 1}}

ReplayNext ==
  \/ \E ids \in IdsAsked(replay.listingId) : ReplayAsk(ids[1], ids[2])
  \/ GetNextActionAnswered
  \/ \E ok \in BOOLEAN : ReplayExecuted(ok)

ReplaySpec == ReplayInit /\ [][ReplayNext]_vars

\* replacePlaceholders(value) is applied to the string made of the pieces
PlaceholdersReplaced ==
  /\ subst.pc = "string"
  /\ LET listing == CHOOSE l \in Listings : l.id = subst.listingId IN
       subst' = [subst EXCEPT !.pc = "replaced",
                              !.output = replacePlaceholders(listing, Some(Concat(subst.pieces)))]
  /\ UNCHANGED exceptSubst

\* The action ends, with an error when error # ""
PageDone(error) == page' = [page EXCEPT !.pc = "done", !.error = error, !.rest = ""]

InvalidText(text) == "Invalid text value: expected string, got " \o TypeOf(text)

\* The element with text in place of its selection, the caret after the text
Inserted(element, cursorPos, selectionEnd, text) ==
  [element EXCEPT !.value = Substring(@, 0, cursorPos) \o text \o SubstringFrom(@, selectionEnd),
                  !.selectionStart = cursorPos + Len(text),
                  !.selectionEnd = cursorPos + Len(text)]

\* typeText(selector, text) up to its first await
typeText(text) ==
  IF page.element.kind = "none"
  THEN PageDone("Element not found: " \o page.action.selector[1])
  ELSE IF TypeOf(text) # "string"
  THEN PageDone(InvalidText(text))
  ELSE page' = [page EXCEPT !.pc = "scrolled", !.rest = text[1]]

\* typeAtCursor(text) up to its first await
typeAtCursor(text) ==
  IF TypeOf(text) # "string"
  THEN PageDone(InvalidText(text))
  ELSE IF page.element.kind = "none"
  THEN PageDone("No element is focused for typing")
  ELSE IF page.element.kind = "input"
  THEN LET currentValue == page.element.value
           cursorPos == IF page.element.selectionStart # 0
                        THEN page.element.selectionStart ELSE Len(currentValue)
           selectionEnd == IF page.element.selectionEnd # 0
                           THEN page.element.selectionEnd ELSE cursorPos
       IN page' = [page EXCEPT !.pc = "done",
                               !.element = Inserted(@, cursorPos, selectionEnd, text[1]),
                               !.events = @ \o <<"input", "change">>]
  ELSE IF text[1] = ""
  THEN PageDone("")
  ELSE page' = [page EXCEPT !.pc = "keys", !.rest = Tail(text[1]),
                            !.element = Inserted(@, @.selectionStart, @.selectionEnd,
                                                 Head(text[1])),
                            !.events = @ \o <<"keydown", "keypress", "keyup">>]

\* executeAction(action) for the kinds type and type_at_cursor
ExecuteAction ==
  /\ page.pc = "start"
  /\ IF page.action.action = "type"
     THEN typeText(OrJs(page.action.text, OrJs(page.action.value, Some(""))))
     ELSE typeAtCursor(page.action.text)
  /\ UNCHANGED exceptPage

\* typeText after wait(300): focus, clear the value, type the first character
TypeStarted ==
  /\ page.pc = "scrolled"
  /\ IF page.rest = ""
     THEN page' = [page EXCEPT !.pc = "done",
                               !.element = [@ EXCEPT !.value = "", !.selectionStart = 0,
                                                     !.selectionEnd = 0],
                               !.events = @ \o <<"change">>]
     ELSE page' = [page EXCEPT !.pc = "typing", !.rest = Tail(@),
                               !.element = [@ EXCEPT !.value = Head(page.rest),
                                                     !.selectionStart = 1, !.selectionEnd = 1],
                               !.events = @ \o <<"input">>]
  /\ UNCHANGED exceptPage

\* typeText after wait(50): the next character, or the change event
CharTyped ==
  /\ page.pc = "typing"
  /\ IF page.rest = ""
     THEN page' = [page EXCEPT !.pc = "done", !.events = @ \o <<"change">>]
     ELSE page' = [page EXCEPT !.rest = Tail(@),
                               !.element = [@ EXCEPT !.value = @ \o Head(page.rest),
                                                     !.selectionStart = Len(page.element.value) + 1,
                                                     !.selectionEnd = Len(page.element.value) + 1],
                               !.events = @ \o <<"input">>]
  /\ UNCHANGED exceptPage

\* typeAtCursor on a contenteditable element after wait(50): the next character, or the end
KeyTyped ==
  /\ page.pc = "keys"
  /\ IF page.rest = ""
     THEN page' = [page EXCEPT !.pc = "done"]
     ELSE page' = [page EXCEPT !.rest = Tail(@),
                               !.element = Inserted(@, @.selectionStart, @.selectionEnd,
                                                    Head(page.rest)),
                               !.events = @ \o <<"keydown", "keypress", "keyup">>]
  /\ UNCHANGED exceptPage

TypeInit ==
  /\ AgentInit
  /\ workflow = LearningWorkflow
  /\ replay = ReplayOff
  /\ subst = SubstOff
  /\ sync = SyncOff
  /\ backend = BackendOff
  /\ main = MainOff
  /\ media = MediaOff
  /\ page \in {[PageOff EXCEPT !.pc = "start", !.action = a, !.before = e, !.element = e] :
                 a \in TypeActions, e \in Elements}

TypeNext == ExecuteAction \/ TypeStarted \/ CharTyped \/ KeyTyped

TypeSpec == TypeInit /\ [][TypeNext]_vars

\* /get-next-action answers the first call of a replay of a one-entry workflow
EntryProcessed ==
  /\ subst.pc = "entry"
  /\ subst' = [subst EXCEPT !.pc = "processed",
                            !.answer = Some(GetNextAction(workflow,
                                              [workflowId |-> workflow.id,
                                               listingId |-> subst.listingId,
                                               currentStep |-> 0]))]
  /\ UNCHANGED exceptSubst

SubstInit ==
  /\ AgentInit
  /\ page = PageOff
  /\ replay = ReplayOff
  /\ sync = SyncOff
  /\ backend = BackendOff
  /\ main = MainOff
  /\ media = MediaOff
  /\ \/ /\ workflow = LearningWorkflow
        /\ subst \in {[SubstOff EXCEPT !.pc = "string", !.listingId = l.id, !.pieces = ps] :
                        l \in Listings, ps \in PieceSeqs}
     \/ /\ workflow \in {[id |-> 41, status |-> "ready", recordedActions |-> <<e>>] :
                           e \in TemplateEntries}
        /\ subst \in {[SubstOff EXCEPT !.pc = "entry", !.listingId = l.id] : l \in Listings}

SubstNext == PlaceholdersReplaced \/ EntryProcessed

SubstSpec == SubstInit /\ [][SubstNext]_vars

(***************************************************************************)
(* Sync engine: start(), processListing, postToVLS and stop()               *)
(***************************************************************************)
\* The listing start() is processing
CurrentMls == sync.listings[sync.i]

\* start() leaves through its finally block
SessionEnded(s) ==
  [s EXCEPT !.pc = "idle", !.state.isRunning = FALSE, !.state.currentSession = Null]

\* processListing returned a result with this status: start() pushes it, counts it and
\* waits before the next listing
ResultPushed(s, status) ==
  [s EXCEPT !.pc = "delay",
            !.session.results = Append(@, [mlsNumber |-> s.listings[s.i], status |-> status]),
            !.session.posted = IF status = "success" THEN @ + 1 ELSE @,
            !.session.skipped = IF status = "skipped" THEN @ + 1 ELSE @,
            !.session.failed = IF status \notin {"success", "skipped"} THEN @ + 1 ELSE @]

\* start-sync builds an engine and calls start(), up to the await of fetchListings
SyncStart ==
  /\ sync.pc = "idle"
  /\ ~sync.state.isRunning
  /\ sync.sessions < MaxSessions
  /\ sync' = [sync EXCEPT !.pc = "fetch", !.sessions = @ + 1, !.session = NewSession,
                          !.listings = <<>>, !.i = 0,
                          !.state = [isRunning |-> TRUE, shouldStop |-> FALSE,
                                     currentSession |-> Some("session")]]
  /\ UNCHANGED exceptSync

\* stop()
SyncStop ==
  /\ sync.state.isRunning
  /\ ~sync.state.shouldStop
  /\ sync' = [sync EXCEPT !.state.shouldStop = TRUE]
  /\ UNCHANGED exceptSync

\* fetchListings settles: it throws, or resolves to the listings of the feed
ListingsFetched(ok, feed) ==
  /\ sync.pc = "fetch"
  /\ sync' = IF ~ok \/ Len(feed) = 0
             THEN SessionEnded([sync EXCEPT !.session.totalListings = IF ok THEN Len(feed) ELSE @])
             ELSE [sync EXCEPT !.pc = "loop", !.listings = feed, !.i = 1,
                               !.session.totalListings = Len(feed)]
  /\ UNCHANGED exceptSync

\* The loop is left: every listing was processed, or stop() was called
SessionReturned ==
  /\ sync.pc = "loop"
  /\ sync.i > Len(sync.listings) \/ sync.state.shouldStop
  /\ sync' = SessionEnded(sync)
  /\ UNCHANGED exceptSync

\* checkDuplicate(listing): isListingSynced answers from the database, and an error
\* of the database is caught and answered with false
checkDuplicate(dbRead) == IF dbRead = "ok" THEN CurrentMls \in sync.synced ELSE FALSE

\* The next listing: processListing up to the await of downloadImages
ListingChecked(dbRead) ==
  /\ sync.pc = "loop"
  /\ sync.i <= Len(sync.listings)
  /\ ~sync.state.shouldStop
  /\ LET isDuplicate == checkDuplicate(dbRead) IN
       sync' = IF isDuplicate THEN ResultPushed(sync, "skipped")
               ELSE [sync EXCEPT !.pc = "download"]
  /\ UNCHANGED exceptSync

\* downloadImages resolved; postToVLS up to the await of postListing
ImagesDownloaded ==
  /\ sync.pc = "download"
  /\ sync' = [sync EXCEPT !.pc = "post"]
  /\ UNCHANGED exceptSync

\* postListing settled: on success the listing is on VLS and recordSyncedListing
\* writes the database, on failure postToVLS throws
ListingPosted(success, dbWrite) ==
  /\ sync.pc = "post"
  /\ sync' = IF ~success THEN ResultPushed(sync, "failed")
             ELSE IF dbWrite = "throws"
             THEN ResultPushed([sync EXCEPT !.vlsPosts[CurrentMls] = @ + 1], "failed")
             ELSE [sync EXCEPT !.pc = "airtable", !.vlsPosts[CurrentMls] = @ + 1,
                               !.synced = @ \cup {CurrentMls}]
  /\ UNCHANGED exceptSync

\* The Airtable record, when configured, and cleanupImages settled
TrackedAndCleaned(ok) ==
  /\ sync.pc = "airtable"
  /\ sync' = ResultPushed(sync, IF ok THEN "success" ELSE "failed")
  /\ UNCHANGED exceptSync

\* delay(1000) elapsed
SyncDelayed ==
  /\ sync.pc = "delay"
  /\ sync' = [sync EXCEPT !.pc = "loop", !.i = @ + 1]
  /\ UNCHANGED exceptSync

SyncInit ==
  /\ AgentInit
  /\ workflow = LearningWorkflow
  /\ replay = ReplayOff
  /\ subst = SubstOff
  /\ page = PageOff
  /\ media = MediaOff
  /\ sync = SyncIdle
  /\ backend = BackendOff
  /\ main = MainOff

SyncNext ==
  \/ SyncStart
  \/ SyncStop
  \/ \E ok \in BOOLEAN, feed \in Feeds : ListingsFetched(ok, feed)
  \/ SessionReturned
  \/ \E dbRead \in DbOutcomes : ListingChecked(dbRead)
  \/ ImagesDownloaded
  \/ \E success \in BOOLEAN, dbWrite \in DbOutcomes : ListingPosted(success, dbWrite)
  \/ \E ok \in BOOLEAN : TrackedAndCleaned(ok)
  \/ SyncDelayed

SyncSpec == SyncInit /\ [][SyncNext]_vars

(***************************************************************************)
(* Bridge API client: one call of convertProperty                          *)
(***************************************************************************)
PropertyConverted ==
  /\ media.pc = "property"
  /\ media' = [media EXCEPT !.pc = "converted", !.listing = convertProperty(media.prop)]
  /\ UNCHANGED exceptMedia

MediaInit ==
  /\ AgentInit
  /\ workflow = LearningWorkflow
  /\ replay = ReplayOff
  /\ subst = SubstOff
  /\ page = PageOff
  /\ sync = SyncOff
  /\ backend = BackendOff
  /\ main = MainOff
  /\ media \in {[MediaOff EXCEPT !.pc = "property", !.prop = prop] : prop \in BridgeProperties}

MediaNext == PropertyConverted

MediaSpec == MediaInit /\ [][MediaNext]_vars

(***************************************************************************)
(* /ai-decision and the executor: one response of the model is converted   *)
(* by the route and, unless the loop breaks on it, handed to executeAction  *)
(***************************************************************************)
\* The actions of the computer-use tool
ComputerTools ==
  {"screenshot", "left_click", "right_click", "double_click", "middle_click", "type", "key",
   "scroll", "mouse_move", "wait", "left_click_drag", "cursor_position"}

\* The responses of the model the conversion is checked over
ToolResponses ==
  [tool : ComputerTools, text : TextBlocks, stop_reason : {"tool_use"}]
    \cup [tool : {"none"}, text : TextBlocks, stop_reason : {"end_turn", "max_tokens"}]

\* The route answers {success: true, data}
DecisionAnswered ==
  /\ backend.pc = "model"
  /\ backend' = [backend EXCEPT !.pc = "answered", !.data = Some(AiDecisionData(backend.model))]
  /\ UNCHANGED <<workflow, exceptBackend>>

\* runAgent does not break on the decision and the content script executes its action
DecisionExecuted(err) ==
  /\ backend.pc = "answered"
  /\ ~IsComplete(backend.data[1].response, backend.data[1].action)
  /\ err \in ExecuteOutcomes(backend.data[1].action[1])
  /\ backend' = [backend EXCEPT !.pc = "executed", !.error = err]
  /\ UNCHANGED <<workflow, exceptBackend>>

DecisionInit ==
  /\ AgentInit
  /\ workflow = LearningWorkflow
  /\ replay = ReplayOff
  /\ subst = SubstOff
  /\ page = PageOff
  /\ sync = SyncOff
  /\ media = MediaOff
  /\ main = MainOff
  /\ backend \in {[BackendOff EXCEPT !.pc = "model", !.model = r] : r \in ToolResponses}

\* The outcomes of executing the actions the route can answer with
DispatchOutcomes ==
  UNION {ExecuteOutcomes(ConvertedKind(tool)) : tool \in ComputerTools} \cup ExecuteOutcomes("done")

DecisionNext == DecisionAnswered \/ \E err \in DispatchOutcomes : DecisionExecuted(err)

DecisionSpec == DecisionInit /\ [][DecisionNext]_vars

(***************************************************************************)
(* /ai-decision: the conversation history the route keeps per session       *)
(***************************************************************************)
\* Session ids clients send of their own
SessionIds == {"s1"}

\* `${req.userId}-${Date.now()}` of the n-th request
GeneratedKey(n) == "u1-" \o ToString(n)

\* The messages the route pushes: content is the types of the content blocks
UserMessage(content) == [role |-> "user", content |-> content]
AssistantMessage(content) == [role |-> "assistant", content |-> content]

\* response.content of a response of the model
ResponseContent(r) ==
  (IF r.text = None THEN <<>> ELSE <<"text">>) \o (IF r.tool = "none" THEN <<>> ELSE <<"tool_use">>)

\* The responses of the model the history is checked over
ModelAnswers == {r \in ToolResponses : r.tool \in {"left_click", "none"}}

\* The first message gets the goal and, being the only message, the screenshot;
\* a later request pushes the screenshot as a tool result
WithScreenshot(messages) ==
  LET started == IF Len(messages) = 0
                 THEN <<UserMessage(<<"text">>)>>
                 ELSE messages
  IN IF Len(started) = 1
     THEN <<[started[1] EXCEPT !.content = Append(@, "image")]>>
     ELSE Append(started, UserMessage(<<"tool_result">>))

\* conversationHistory.set(key, messages)
MapSet(map, key, messages) ==
  [k \in DOMAIN map \cup {key} |-> IF k = key THEN messages ELSE map[k]]

\* conversationHistory.delete(key)
MapDelete(map, key) == [k \in DOMAIN map \ {key} |-> map[k]]

\* The array `messages` of the request in flight
CallMessages ==
  IF backend.call.stored
  THEN backend.conversationHistory[backend.call.historyKey]
  ELSE backend.call.messages

\* A request arrives: validation, the history of the session is looked up (the stored
\* array itself, or a new one), the screenshot is pushed and the model is called
AiDecisionRequested(valid, sessionId) ==
  /\ backend.pc = "sessions"
  /\ backend.call.pc \in {"idle", "answered"}
  /\ backend.call.asked < MaxDecisions
  /\ LET asked == backend.call.asked + 1
         historyKey == IF sessionId = None THEN GeneratedKey(asked) ELSE sessionId[1]
         stored == historyKey \in DOMAIN backend.conversationHistory
     IN IF ~valid
        THEN backend' = [backend EXCEPT !.call = [NoCall EXCEPT !.pc = "answered", !.asked = asked,
                                                                 !.status = 400]]
        ELSE IF stored
        THEN backend' = [backend EXCEPT
               !.conversationHistory[historyKey] = WithScreenshot(@),
               !.call = [NoCall EXCEPT !.pc = "model", !.asked = asked, !.stored = TRUE,
                                       !.historyKey = historyKey]]
        ELSE backend' = [backend EXCEPT
               !.call = [NoCall EXCEPT !.pc = "model", !.asked = asked,
                                       !.historyKey = historyKey,
                                       !.messages = WithScreenshot(<<>>)]]
  /\ UNCHANGED <<workflow, exceptBackend>>

\* anthropic.beta.messages.create resolves: the response is pushed and the history
\* stored; on end_turn without a tool use the history of the session is deleted
ModelAnswered(r) ==
  /\ backend.pc = "sessions"
  /\ backend.call.pc = "model"
  /\ LET messages == Append(CallMessages, AssistantMessage(ResponseContent(r)))
         set == MapSet(backend.conversationHistory, backend.call.historyKey, messages)
     IN backend' = [backend EXCEPT
          !.conversationHistory =
             IF r.tool = "none" /\ r.stop_reason = "end_turn"
             THEN MapDelete(set, backend.call.historyKey)
             ELSE set,
          !.call.pc = "answered", !.call.status = 200,
          !.data = Some(AiDecisionData(r))]
  /\ UNCHANGED <<workflow, exceptBackend>>

\* anthropic.beta.messages.create rejects: catch answers 500
ModelFailed ==
  /\ backend.pc = "sessions"
  /\ backend.call.pc = "model"
  /\ backend' = [backend EXCEPT !.call.pc = "answered", !.call.status = 500, !.data = None]
  /\ UNCHANGED <<workflow, exceptBackend>>

ConversationInit ==
  /\ AgentInit
  /\ workflow = LearningWorkflow
  /\ replay = ReplayOff
  /\ subst = SubstOff
  /\ page = PageOff
  /\ sync = SyncOff
  /\ media = MediaOff
  /\ main = MainOff
  /\ backend = [BackendOff EXCEPT !.pc = "sessions"]

\* A client sends no sessionId, its own, or one the route can answer with
SessionIdsSent ==
  {None} \cup {Some(k) : k \in SessionIds \cup {GeneratedKey(n) : n \in 1..MaxDecisions}}

ConversationNext ==
  \/ \E valid \in BOOLEAN, sessionId \in SessionIdsSent : AiDecisionRequested(valid, sessionId)
  \/ \E r \in ModelAnswers : ModelAnswered(r)
  \/ ModelFailed

ConversationSpec == ConversationInit /\ [][ConversationNext]_vars

(***************************************************************************)
(* main.ts: the start-sync and stop-sync handlers, the settling of an       *)
(* engine's start() and the continuation that cleans up after it            *)
(***************************************************************************)
\* ipcMain.handle('start-sync'): configured is whether the VLS credentials are set
StartSyncRequested(configured) ==
  /\ main.pc = "on"
  /\ IF main.activeSyncEngine # 0 /\ main.engines[main.activeSyncEngine].isRunning
     THEN main' = [main EXCEPT !.answer = "Sync is already running"]
     ELSE IF ~configured
     THEN main' = [main EXCEPT !.answer = "VLS Homes credentials not configured"]
     ELSE /\ Len(main.engines) < MaxEngines
          /\ main' = [main EXCEPT !.engines = Append(@, StartedEngine),
                                  !.activeSyncEngine = Len(main.engines) + 1,
                                  !.answer = "success"]
  /\ UNCHANGED exceptMain

\* ipcMain.handle('stop-sync')
StopSyncRequested ==
  /\ main.pc = "on"
  /\ IF main.activeSyncEngine # 0
     THEN main' = [main EXCEPT !.engines[main.activeSyncEngine].shouldStop = TRUE,
                               !.answer = ""]
     ELSE main' = [main EXCEPT !.answer = ""]
  /\ UNCHANGED exceptMain

\* start() of engine e settles: its finally clears isRunning, then the .then callback
\* (ok) or the .catch callback runs up to `await activeSyncEngine?.cleanup()`
EngineSettled(e, ok) ==
  /\ main.pc = "on"
  /\ e \in DOMAIN main.engines
  /\ main.engines[e].isRunning
  /\ main' = [main EXCEPT !.engines[e].isRunning = FALSE,
                          !.engines[e].after = IF ok THEN "then" ELSE "catch",
                          !.engines[e].cleaning = main.activeSyncEngine,
                          !.answer = ""]
  /\ UNCHANGED exceptMain

\* The cleanup awaited by the continuation of engine e settles: resolved, the
\* continuation sets activeSyncEngine = null; rejected in .then, the .catch callback
\* runs up to its own cleanup; rejected in .catch, the continuation ends there
CleanupSettled(e, ok) ==
  /\ main.pc = "on"
  /\ e \in DOMAIN main.engines
  /\ main.engines[e].after \in {"then", "catch"}
  /\ IF ok
     THEN main' = [main EXCEPT !.activeSyncEngine = 0, !.engines[e].after = "done",
                               !.engines[e].cleaning = 0, !.answer = ""]
     ELSE IF main.engines[e].after = "then"
     THEN main' = [main EXCEPT !.engines[e].after = "catch",
                               !.engines[e].cleaning = main.activeSyncEngine, !.answer = ""]
     ELSE main' = [main EXCEPT !.engines[e].after = "done", !.engines[e].cleaning = 0,
                               !.answer = ""]
  /\ UNCHANGED exceptMain

MainInit ==
  /\ AgentInit
  /\ workflow = LearningWorkflow
  /\ replay = ReplayOff
  /\ subst = SubstOff
  /\ page = PageOff
  /\ sync = SyncOff
  /\ media = MediaOff
  /\ backend = BackendOff
  /\ main = [MainOff EXCEPT !.pc = "on"]

MainNext ==
  \/ \E configured \in BOOLEAN : StartSyncRequested(configured)
  \/ StopSyncRequested
  \/ \E e \in 1..MaxEngines, ok \in BOOLEAN : EngineSettled(e, ok)
  \/ \E e \in 1..MaxEngines, ok \in BOOLEAN : CleanupSettled(e, ok)

MainSpec == MainInit /\ [][MainNext]_vars

(***************************************************************************)
(* /record-action: the route reads the workflow, checks it and writes the   *)
(* trace back with one more entry; each prisma call is an await             *)
(***************************************************************************)
\* Request bodies: each recordable action, a missing action, a missing and an
\* unknown workflow id
RecordBodies ==
  LET click == CHOOSE e \in Entries : e.selector = Some("#user") IN
    {[workflowId |-> 41, action |-> Some(e)] : e \in Entries}
      \cup {[workflowId |-> 41, action |-> None], [workflowId |-> 0, action |-> Some(click)],
             [workflowId |-> 99, action |-> Some(click)]}

\* Variant of recordedEntry that numbers the steps from 0
recordedEntry_ZeroBased(currentActions, action, timestamp) ==
  [action |-> action.action, selector |-> action.selector, text |-> action.text,
   value |-> action.value, timestamp |-> timestamp, step |-> Len(currentActions)]

\* {...action, timestamp, step: currentActions.length + 1}
recordedEntry(currentActions, action, timestamp) ==
  [action |-> action.action, selector |-> action.selector, text |-> action.text,
   value |-> action.value, timestamp |-> timestamp, step |-> Len(currentActions) + 1]

\* The request is answered
Answer(q, res) ==
  backend' = [backend EXCEPT !.requests[q].pc = "answered", !.requests[q].res = Some(res)]

\* A request arrives: the body is validated and prisma.workflow.findFirst is awaited
RecordRequested(q, body) ==
  /\ backend.pc = "record"
  /\ backend.requests[q].pc \in {"idle", "answered"}
  /\ backend.served < MaxRequests
  /\ IF body.workflowId = 0 \/ body.action = None
     THEN backend' = [backend EXCEPT
                        !.served = @ + 1,
                        !.requests[q] = [NoRequest EXCEPT
                           !.pc = "answered", !.body = body,
                           !.res = Some(ErrorResponse(400, "workflowId and action are required"))]]
     ELSE backend' = [backend EXCEPT
                        !.served = @ + 1,
                        !.requests[q] = [NoRequest EXCEPT !.pc = "findFirst", !.body = body]]
  /\ UNCHANGED <<workflow, exceptBackend>>

\* findFirst resolves with the workflow or null, or rejects: the ownership and the
\* status are checked, the new trace is built and prisma.workflow.update is awaited
WorkflowFound(q, ok) ==
  /\ backend.pc = "record"
  /\ backend.requests[q].pc = "findFirst"
  /\ LET body == backend.requests[q].body IN
       IF ~ok
       THEN Answer(q, ErrorResponse(500, "Failed to record action"))
       ELSE IF workflow.id # body.workflowId
       THEN Answer(q, ErrorResponse(404, "Workflow not found"))
       ELSE IF workflow.status # "learning"
       THEN Answer(q, ErrorResponse(400, "Workflow is not in learning mode"))
       ELSE backend' = [backend EXCEPT
                          !.now = @ + 1,
                          !.requests[q].pc = "update",
                          !.requests[q].updatedActions =
                             Append(workflow.recordedActions,
                                    recordedEntry(workflow.recordedActions, body.action[1],
                                                  backend.now))]
  /\ UNCHANGED <<workflow, exceptBackend>>

\* update resolves, the trace of the request being stored, or rejects
WorkflowUpdated(q, ok) ==
  /\ backend.pc = "record"
  /\ backend.requests[q].pc = "update"
  /\ IF ok
     THEN /\ workflow' = [workflow EXCEPT !.recordedActions = backend.requests[q].updatedActions]
          /\ Answer(q, DataResponse([actionNumber |-> Len(backend.requests[q].updatedActions)]))
     ELSE /\ Answer(q, ErrorResponse(500, "Failed to record action"))
          /\ UNCHANGED workflow
  /\ UNCHANGED exceptBackend

\* The workflow leaves the learning status
StatusChanged(status) ==
  /\ backend.pc = "record"
  /\ workflow.status = "learning"
  /\ status # "learning"
  /\ workflow' = [workflow EXCEPT !.status = status]
  /\ UNCHANGED <<backend, exceptBackend>>

\* No request is between its arrival and its answer
NoRequestInFlight == \A q \in Requests : backend.requests[q].pc \in {"idle", "answered"}

RecordInit ==
  /\ AgentInit
  /\ workflow \in {LearningWorkflow,
                   [LearningWorkflow EXCEPT !.recordedActions =
                      <<recordedEntry(<<>>, CHOOSE e \in Entries : e.selector = Some("#user"), 0)>>]}
  /\ replay = ReplayOff
  /\ subst = SubstOff
  /\ page = PageOff
  /\ sync = SyncOff
  /\ media = MediaOff
  /\ main = MainOff
  /\ backend = [BackendOff EXCEPT !.pc = "record", !.now = 1]

\* The requests of one agent loop: each is sent when the one before was answered, and
\* the status is changed between requests
RecordNext ==
  \/ \E q \in Requests, body \in RecordBodies : NoRequestInFlight /\ RecordRequested(q, body)
  \/ \E q \in Requests, ok \in BOOLEAN : WorkflowFound(q, ok)
  \/ \E q \in Requests, ok \in BOOLEAN : WorkflowUpdated(q, ok)
  \/ \E status \in WorkflowStatuses : NoRequestInFlight /\ StatusChanged(status)

RecordSpec == RecordInit /\ [][RecordNext]_vars

\* Requests and status changes arrive at any time
ConcurrentRecordNext ==
  \/ \E q \in Requests, body \in RecordBodies : RecordRequested(q, body)
  \/ \E q \in Requests, ok \in BOOLEAN : WorkflowFound(q, ok)
  \/ \E q \in Requests, ok \in BOOLEAN : WorkflowUpdated(q, ok)
  \/ \E status \in WorkflowStatuses : StatusChanged(status)

ConcurrentRecordSpec == RecordInit /\ [][ConcurrentRecordNext]_vars

(***************************************************************************)
(* Properties                                                              *)
(***************************************************************************)
InLoop(h) == pc[h] \in {"capture", "decide", "backoff", "execute", "record", "pause"}

TornDown(s) == ~s.running /\ s.goal = None /\ s.actionHistory = <<>>

\* C1: a run_agent received while state.running is true is answered with
\* 'Agent is already running' and changes neither the AgentState nor the
\* activation that is in progress.
C1_SingleFlight ==
  [][\A h \in Handlers :
       (event'.await = "run_agent" /\ event'.handler = h /\ state.running)
         => /\ sentResponse' = "Agent is already running"
            /\ state' = state
            /\ pc'[h] = "idle"
            /\ \A g \in Handlers \ {h} :
                 /\ pc'[g] = pc[g] /\ iteration'[g] = iteration[g]
                 /\ retries'[g] = retries[g] /\ response'[g] = response[g]]_vars

C1_Witness ==
  /\ event.await = "run_agent"
  /\ sentResponse = "Agent is already running"
  /\ state.running /\ state.goal # None /\ state.goal # Some(event.goal)
  /\ state.actionHistory # <<>>
  /\ \E g \in Handlers : g # event.handler /\ InLoop(g)

\* C2: whenever an activation that passed the entry guard returns, for any
\* reason, the AgentState is idle again: running false, goal null, history empty.
C2_TeardownOnEveryExit ==
  [][\A h \in Handlers :
       (pc[h] # "idle" /\ pc'[h] = "idle") => TornDown(state')]_vars

\* C3: the iteration counter counts the passes that did not end in an execution
\* failure: inside a pass it is one more than the number of such earlier passes,
\* and after a pass it equals the number of such passes (K failures and one
\* success add exactly 1).
C3_IterationAccounting ==
  \A h \in Handlers :
    /\ pc[h] \in {"capture", "decide", "backoff", "execute", "record"}
         => iteration[h] = okPasses[h] + 1
    /\ pc[h] = "pause" => iteration[h] = okPasses[h]

C3_Witness ==
  \E h \in Handlers :
    /\ pc[h] = "pause" /\ iteration[h] = 1 /\ okPasses[h] = 1
    /\ dropped
    /\ LET n == Len(state.actionHistory) IN
         /\ n >= 2
         /\ state.actionHistory[n].result = "success"
         /\ state.actionHistory[n - 1].result # "success"

\* C4: every activation that enters the loop eventually returns.
C4_RunTerminates ==
  \A h \in Handlers : (pc[h] = "capture") ~> (pc[h] = "idle")

\* C5: actionHistory never holds more than the limit, and every change of it
\* either clears it or appends one entry, evicting the oldest entry only when
\* the limit would be exceeded.
C5_HistoryRingBuffer ==
  [][LET before == state.actionHistory
         after == state'.actionHistory
         appended == Append(before, after[Len(after)])
     IN /\ Len(after) <= HistoryLimit
        /\ \/ after = before
           \/ after = <<>>
           \/ after = IF Len(appended) > HistoryLimit
                      THEN SubSeq(appended, Len(appended) - HistoryLimit + 1, Len(appended))
                      ELSE appended]_vars

C5_Witness ==
  /\ dropped
  /\ Len(state.actionHistory) = HistoryLimit
  /\ \E i, j \in 1..Len(state.actionHistory) :
       /\ state.actionHistory[i].result = "success"
       /\ state.actionHistory[j].result # "success"

\* C6: a run gives up on the decision source only after three retries, made
\* after waits of 2 s, 4 s and 8 s.
C6_BackoffSchedule ==
  [][\A h \in Handlers :
       (event'.handler = h /\ event'.await = "decide" /\ ~event'.ok /\ pc'[h] = "idle")
         => waits[h] = <<2000, 4000, 8000>>]_vars

\* C7: when the decision call fails on the last of the MAX_RETRIES attempts, the
\* activation returns at once (nothing is executed, no iteration follows), the
\* popup gets an error message with the attempt count, and the state is torn down.
C7_ExhaustedRetriesFailRun ==
  [][\A h \in Handlers :
       (event'.handler = h /\ event'.await = "decide" /\ ~event'.ok /\ retries[h] = MAX_RETRIES - 1)
         => /\ pc'[h] = "idle"
            /\ StartsWith(sentMessage', "Error: ")
            /\ Includes(sentMessage', "after " \o ToString(MAX_RETRIES) \o " attempts")
            /\ TornDown(state')
            /\ state'.currentStep = state.currentStep
            /\ ~lastStatus'.running]_vars

C7_Witness ==
  /\ event.await = "decide" /\ ~event.ok
  /\ pc[event.handler] = "idle"
  /\ Includes(sentMessage, "API failed after 3 attempts")
  /\ TornDown(state)

\* C8: an action that came in a payload with done:true is never executed.
C8_DoneWinsOverAction ==
  \A h \in Handlers :
    pc[h] = "execute" => ~(response[h].done /\ response[h].action # None)

\* C9: a run_agent with a question goal ('hello' is one), received while no run
\* is in progress, sends the help message and returns: the AgentState, the
\* status and every activation are as before.
C9_QuestionNeverRuns ==
  [][\A h \in Handlers :
       (/\ event'.await = "run_agent" /\ event'.handler = h /\ ~state.running
        /\ (isJustAQuestion(event'.goal) \/ event'.goal = "hello"))
         => /\ sentMessage' = HelpMessage
            /\ sentResponse' = "success"
            /\ state' = state
            /\ lastStatus' = lastStatus
            /\ pc' = pc]_vars

C9_Witness ==
  /\ event.await = "run_agent" /\ event.goal = "hello"
  /\ sentMessage = HelpMessage
  /\ ~state.running /\ state.goal = None
  /\ \A h \in Handlers : pc[h] = "idle"

\* C10: get-next-action asked with cursor c on a trace of n entries answers
\* done=true without an action when c >= n, and otherwise done=false with
\* entry c of the trace, its placeholders replaced by the listing's data,
\* step=c and totalSteps=n; a replay that starts at cursor 0 and advances the
\* cursor after each success plays the entries in order and is told done on
\* the call after the last entry (the 4th call for 3 entries when no
\* execution failed).
SubstitutedEntry(entry, listingId) ==
  IF entry.action = "type"
  THEN [entry EXCEPT !.text = Some(IF listingId = 7 THEN "123 Main St" ELSE "9 Elm Rd"),
                     !.value = Some(IF listingId = 7 THEN "250000 USD" ELSE "99 USD")]
  ELSE entry

C10_CursorSemantics ==
  (replay.rpc \in {"execute", "finished"}) =>
    LET c == replay.body[1].currentStep
        trace == workflow.recordedActions
        n == Len(trace)
        data == replay.answer[1].data[1]
    IN /\ c = replay.currentStep
       /\ IF c >= n
          THEN data.done /\ data.action = None
          ELSE /\ ~data.done
               /\ data.action = Some(SubstitutedEntry(trace[c + 1], replay.listingId))
               /\ data.step = Some(c)
               /\ data.totalSteps = Some(n)
       /\ (replay.rpc = "finished" /\ replay.start = 0) =>
            /\ replay.played = [i \in 1..n |-> SubstitutedEntry(trace[i], replay.listingId)]
            /\ replay.calls = n + 1 + replay.failures

C10_Witness ==
  /\ replay.rpc = "finished" /\ replay.start = 0 /\ replay.listingId = 7
  /\ replay.failures = 0 /\ replay.calls = 4
  /\ [i \in 1..3 |-> workflow.recordedActions[i].action] = <<"click", "type", "click">>
  /\ replay.played[2].text = Some("123 Main St")

\* C11: a {{TOKEN}} whose identifier is neither a field of the canonical field
\* map nor a key of the listing's data bag stays in the output as it is, and
\* so does all text outside tokens; the other tokens are replaced by the
\* listing's values.
CanonicalFields ==
  {"address", "city", "state", "zipcode", "zip", "price", "bedrooms", "bathrooms",
   "squarefeet", "description", "mlsnumber"}

\* The identifier of a piece that is a token, "" for other pieces
TokenName(piece) ==
  IF HasAt(piece, 1, "{{") /\ Len(piece) > 4 /\ WordEnd(piece, 3) = Len(piece) - 1
     /\ HasAt(piece, Len(piece) - 1, "}}")
  THEN SubSeq(piece, 3, Len(piece) - 2)
  ELSE ""

Unresolvable(listing, piece) ==
  /\ TokenName(piece) # ""
  /\ ToLowerCase(TokenName(piece)) \notin CanonicalFields
  /\ TokenName(piece) \notin DOMAIN listing.listingData

\* What a piece is to become for each of the two listings
ExpectedPiece(listing, piece) ==
  IF TokenName(piece) = "" \/ Unresolvable(listing, piece) THEN piece
  ELSE CASE piece = "{{ADDRESS}}" -> IF listing.id = 7 THEN "123 Main St" ELSE "9 Elm Rd"
         [] piece = "{{city}}" -> IF listing.id = 7 THEN "Miami" ELSE "Tampa"
         [] piece = "{{Pool}}" -> "yes"

C11_UnknownTokensStayLiteral ==
  subst.pc = "replaced" =>
    LET listing == CHOOSE l \in Listings : l.id = subst.listingId IN
      subst.output =
        Some(Concat([i \in 1..Len(subst.pieces) |-> ExpectedPiece(listing, subst.pieces[i])]))

\* C12: executing a type or type_at_cursor action whose text is not a string
\* never changes the element and never fires an event, and it ends with an error.
C12_NonStringTextFailsFirst ==
  (page.pc # "off" /\ TypeOf(page.action.text) # "string") =>
    /\ page.element = page.before
    /\ page.events = <<>>
    /\ page.pc = "done" => page.error # ""

Stage(position) ==
  CASE position \in {"tabs", "workflow", "pageinfo", "inject", "overlay"} -> 0
    [] position = "capture" -> 1
    [] position \in {"decide", "backoff"} -> 2
    [] position = "execute" -> 3
    [] position = "record" -> 4
    [] position = "pause" -> 5
    [] position = "idle" -> 6

C15_DuplicatePrevention ==
  /\ sync.pc \in {"download", "post"} => CurrentMls \notin sync.synced
  /\ \A n \in sync.synced : sync.vlsPosts[n] >= 1
  /\ \A n \in MlsNumbers : sync.vlsPosts[n] <= 1

\* C16: the imageUrls of a converted property are exactly the MediaURL values of
\* its Media items whose MediaCategory is 'Photo' or absent and whose MediaURL
\* is a non-empty string, each item once, in ascending Order (compared where
\* both items carry an Order); a missing, null or empty Media yields none.
QualifyingMedia(items) ==
  {i \in 1..Len(items) :
     /\ items[i].MediaCategory \in {None, Null, Some("Photo")}
     /\ TypeOf(items[i].MediaURL) = "string"
     /\ items[i].MediaURL # Some("")}

C16_ImageUrlsFromMedia ==
  media.pc = "converted" =>
    LET items == IF IsArray(media.prop.Media) THEN media.prop.Media[2] ELSE <<>>
        out == media.listing.imageUrls
    IN /\ Len(out) = Cardinality(QualifyingMedia(items))
       /\ \E p \in [1..Len(out) -> QualifyingMedia(items)] :
            /\ \A j, k \in 1..Len(out) : j # k => p[j] # p[k]
            /\ \A k \in 1..Len(out) : out[k] = items[p[k]].MediaURL[1]
            /\ \A j, k \in 1..Len(out) :
                 (j < k /\ TypeOf(items[p[j]].Order) = "number"
                        /\ TypeOf(items[p[k]].Order) = "number")
                   => items[p[j]].Order[2] <= items[p[k]].Order[2]

C16_Witness ==
  /\ media.pc = "converted"
  /\ IsArray(media.prop.Media)
  /\ LET items == media.prop.Media[2] IN
       /\ Len(items) = 3
       /\ items[1].MediaURL = Some("p2.jpg")
       /\ items[2].MediaCategory = Some("Video")
       /\ items[3].MediaURL = Some("p1.jpg")
  /\ media.listing.imageUrls = <<"p1.jpg", "p2.jpg">>

\* C17: a parse failure of the decision source (the model's response holds no
\* parsable JSON payload) is not retried by the orchestrator: after it the
\* activation makes no further decision call for that iteration (it neither
\* backs off nor calls again), whereas a transport failure with attempts left
\* is retried after a backoff.
C17_ParseFailureNotRetried ==
  [][
       \A h \in Handlers :
         (event'.handler = h /\ event'.await = "decide" /\ ~event'.ok) =>
           /\ event'.error \in ParseErrors => pc'[h] \notin {"backoff", "decide"}
           /\ (event'.error \in TransportErrors /\ retries[h] + 1 < MAX_RETRIES)
                => pc'[h] = "backoff"
     ]_vars

\* C18: when a decision carries no action and does not signal done (neither
\* the done flag nor a completion phrase in its text), the orchestrator
\* executes nothing and goes on to the next iteration: the activation neither
\* returns nor starts an execution, and the run stays in progress.
C18_NoActionIsWarning ==
  [][
       \A h \in Handlers, data \in Decisions :
         (/\ data.action = None /\ ~data.done
          /\ ~Includes(ToLowerCase(data.response), "task complete")
          /\ ~Includes(ToLowerCase(data.response), "finished")
          /\ Decided(h, data))
           => /\ pc'[h] \notin {"idle", "execute"}
              /\ state'.running = state.running
     ]_vars

\* C19: a failed execution does not terminate the run.  The step that handles
\* the failure leaves the run in progress, appends exactly one history entry,
\* 'failed: <message>', behind the entries already there (the oldest is evicted
\* when the history is full), sends the failure to the operator and goes to the
\* wait between actions without sending record-action; when that wait is over
\* and the run was not stopped, the loop begins a further pass.
C19_FailedExecutionContinues ==
  [][
       \A h \in Handlers :
         /\ (event'.handler = h /\ event'.await = "execute" /\ ~event'.ok) =>
              LET old == state.actionHistory
                  new == state'.actionHistory
              IN /\ state'.running = state.running
                 /\ pc'[h] = "pause"
                 /\ Len(new) >= 1 /\ Len(new) <= Len(old) + 1
                 /\ new[Len(new)].result = "failed: " \o event'.error
                 /\ SubSeq(new, 1, Len(new) - 1)
                      = SubSeq(old, Len(old) - Len(new) + 2, Len(old))
                 /\ Includes(sentMessage', event'.error)
                 /\ state'.currentStep = state.currentStep
         /\ (/\ event.handler = h /\ event.await = "execute" /\ ~event.ok
             /\ event'.handler = h /\ event'.await = "pause" /\ state.running)
              => pc'[h] = "capture"
     ]_vars

C19_Witness ==
  /\ event.await = "pause"
  /\ pc[event.handler] = "capture"
  /\ state.running
  /\ Len(state.actionHistory) = HistoryLimit
  /\ StartsWith(state.actionHistory[HistoryLimit].result, "failed: ")
  /\ state.actionHistory[1].result = "success"

\* C20: the entry a replay call returns has every string-valued field run
\* through the substitution: in selector, url, filepath, key, text and value
\* each token resolvable from the listing is replaced, and a field that holds
\* no string (missing, or a number) is returned as recorded.
ExpectedString(listing, field, string) ==
  LET ps == CHOOSE t \in FieldTemplates[field] : Some(Concat(t)) = string IN
    Some(Concat([i \in 1..Len(ps) |-> ExpectedPiece(listing, ps[i])]))

C20_EveryStringFieldSubstituted ==
  subst.pc = "processed" =>
    LET listing == CHOOSE l \in Listings : l.id = subst.listingId
        recorded == workflow.recordedActions[1]
        returned == subst.answer[1].data[1].action[1]
    IN /\ returned.action = recorded.action
       /\ returned.x = recorded.x
       /\ \A field \in StringFields :
            returned[field] = IF TypeOf(recorded[field]) = "string"
                              THEN ExpectedString(listing, field, recorded[field])
                              ELSE recorded[field]

\* C21: a token whose lower-cased identifier is a field of the canonical map
\* resolves to that attribute of the listing, whatever the letter case of the
\* identifier, and the data bag is not consulted for it: a string made of
\* such tokens and of text outside tokens becomes the same string with each
\* token replaced by the listing's attribute.
ListingAttribute(listing, piece) ==
  CASE ToLowerCase(TokenName(piece)) = "address" -> listing.address
    [] ToLowerCase(TokenName(piece)) = "city" -> listing.city
    [] OTHER -> piece

C21_CanonicalMapFirst ==
  (/\ subst.pc = "replaced"
   /\ \A i \in 1..Len(subst.pieces) :
        TokenName(subst.pieces[i]) # ""
          => ToLowerCase(TokenName(subst.pieces[i])) \in {"address", "city"})
    => LET listing == CHOOSE l \in Listings : l.id = subst.listingId IN
         subst.output =
           Some(Concat([i \in 1..Len(subst.pieces) |-> ListingAttribute(listing, subst.pieces[i])]))

\* C22: every action the reasoning decision source returns as a non-null
\* action, its completion signal included, has a kind executeAction's
\* dispatch accepts, and executing it never ends in 'Unknown action'.
C22_DecisionKindsAreExecutable ==
  /\ (backend.pc \in {"answered", "executed"} /\ backend.data[1].action # None)
       => backend.data[1].action[1] \in KnownKinds
  /\ backend.pc = "executed" => ~StartsWith(backend.error, "Unknown action")


\* C23: the record-action request is sent only once the execution of the action has
\* resolved, and whether that request resolves or rejects the action is pushed to the
\* history as 'success', currentStep advances by one and the pass goes on to its wait
C23_RecordFailureIgnored ==
  [][\A h \in Handlers :
       /\ (pc[h] # "record" /\ pc'[h] = "record")
            => (pc[h] = "execute" /\ event'.handler = h /\ event'.await = "execute" /\ event'.ok)
       /\ (pc[h] = "record" /\ event'.handler = h /\ event'.await = "record")
            => /\ Len(state'.actionHistory) > 0
               /\ state'.actionHistory[Len(state'.actionHistory)]
                    = [action |-> response[h].action[1], result |-> "success"]
               /\ state'.currentStep = state.currentStep + 1
               /\ iteration'[h] = iteration[h]
               /\ pc'[h] = "pause"]_vars

\* A record-action request was rejected and the action is in the history as a success
C23_Witness ==
  /\ event.await = "record"
  /\ ~event.ok
  /\ pc[event.handler] = "pause"
  /\ Len(state.actionHistory) > 0
  /\ state.actionHistory[Len(state.actionHistory)].result = "success"


\* The workflow's trace before and after a step
TraceGrewByOne ==
  LET before == workflow.recordedActions
      after == workflow'.recordedActions
  IN /\ Len(after) = Len(before) + 1
     /\ SubSeq(after, 1, Len(before)) = before
     /\ after[Len(after)].step = Len(before) + 1

OwnEntry(q) ==
  backend.requests[q].updatedActions[Len(backend.requests[q].updatedActions)]

\* C28: with requests handled concurrently, the entry of every request answered with
\* success is in the stored trace, and the stored steps are 1..n in order
C28_NoLostUpdate ==
  /\ \A q \in Requests :
       (/\ backend.requests[q].pc = "answered"
        /\ backend.requests[q].res[1].success)
         => \E i \in DOMAIN workflow.recordedActions :
              workflow.recordedActions[i] = OwnEntry(q)
  /\ \A i \in DOMAIN workflow.recordedActions : workflow.recordedActions[i].step = i


\* C25: whatever the order of run_agent, stop_agent and the awaits, an activation
\* continues its loop only on the state of its own run, and tears down only the
\* state of its own run (or a state no run is using)
C25_OneLoopPerRun ==
  [][\A h \in Handlers :
       /\ (pc[h] # "idle" /\ pc'[h] = "capture" /\ iteration'[h] = iteration[h] + 1)
            => state.goal = Some(goalOf[h])
       /\ (pc[h] # "idle" /\ pc'[h] = "idle" /\ state.running /\ ~state'.running)
            => state.goal = Some(goalOf[h])]_vars


\* The engines whose start() has not settled
RunningEngines == {e \in DOMAIN main.engines : main.engines[e].isRunning}

\* C26: at most one engine is running, activeSyncEngine refers to the running
\* engine, and a continuation cleans up the engine whose start() it follows
C26_OneEngineTracked ==
  /\ Cardinality(RunningEngines) <= 1
  /\ \A e \in RunningEngines : main.activeSyncEngine = e
  /\ \A e \in DOMAIN main.engines : main.engines[e].cleaning \in {0, e}


\* user, assistant, user, assistant, ...: an even number of messages, the odd ones
\* from the user
Alternates(messages) ==
  /\ Len(messages) % 2 = 0
  /\ \A i \in DOMAIN messages :
       messages[i].role = IF i % 2 = 1 THEN "user" ELSE "assistant"

\* C27: when no request is awaiting the model, every stored history alternates user
\* and assistant messages from a user message to an assistant message, also after a
\* request whose model call failed
C27_StoredHistoriesAlternate ==
  backend.call.pc # "model"
    => \A k \in DOMAIN backend.conversationHistory : Alternates(backend.conversationHistory[k])


\* C29: type_at_cursor on a focused input or textarea puts the text in place of the
\* selection [selectionStart, selectionEnd) of the element, the characters outside it
\* being kept, and leaves the caret right after the text, for every caret position
C29_TextReplacesSelection ==
  (/\ page.pc = "done"
   /\ page.action.action = "type_at_cursor"
   /\ page.before.kind = "input"
   /\ TypeOf(page.action.text) = "string")
    => LET text == page.action.text[1]
           before == page.before
       IN /\ page.element.value =
               Substring(before.value, 0, before.selectionStart) \o text
                 \o SubstringFrom(before.value, before.selectionEnd)
          /\ page.element.selectionStart = before.selectionStart + Len(text)
          /\ page.element.selectionEnd = before.selectionStart + Len(text)


\* C30: when an activation that passed the guards of run_agent returns, whatever the
\* stage it returns from, the last status_update sent carries running = false
C30_LastStatusNotRunning ==
  [][\A h \in Handlers :
       (pc[h] # "idle" /\ pc'[h] = "idle") => ~lastStatus'.running]_vars

====
